---- MODULE Spec2Model ----
(***************************************************************************)
(* The CBOR annotator of cquisitor: rust/src/cbor/cbor_decoder.rs.         *)
(* get_value folds a token stream into a tree of annotated documents with  *)
(* an explicit stack of CborCollection frames.  The module models the      *)
(* frames (new_collection, add_value, is_collection_finished, to_value),   *)
(* the span arithmetic (extend_pos), the document builder and the engine   *)
(* loop of get_value, one action per token.                                *)
(***************************************************************************)
EXTENDS Integers, Sequences, FiniteSets, TLC

VARIABLES
    mode,         \* which driver runs: "decode", "scenario" or "frame"
    consumed,     \* get_value: the tokens the tokenizer has yielded so far
    collections,  \* get_value: the frame stack, bottom first
    outcome,      \* get_value: running, or how the call ended
    eof,          \* get_value: TRUE once the tokenizer was exhausted
    frame,        \* frame driver: the CborCollection under test (Option)
    last          \* frame driver: the last call made on it and its result

vars == <<mode, consumed, collections, outcome, eof, frame, last>>

(***************************************************************************)
(* Bounds of the model.                                                    *)
(***************************************************************************)
MaxTokens == 4      \* longest token stream of the decode driver
MaxDecl == 2        \* largest declared length the frame driver opens a frame with
ScenarioLen == 6    \* longest token stream of the scenario driver
MaxCalls == 4       \* calls made on one frame by the frame driver
MaxSpan == 3        \* largest offset and largest length of a span the span driver builds

(***************************************************************************)
(* Option<T> and Result<T, JsError>.  A panic (unwrap on None / Err) is a   *)
(* third way out of a function.                                            *)
(***************************************************************************)
None == <<>>
Some(x) == <<x>>
is_none(o) == Len(o) = 0
is_some(o) == Len(o) = 1
unwrap(o) == o[1]

Ok(x) == [st |-> "ok", v |-> x]
Err(msg) == [st |-> "err", err |-> msg]
Panic(msg) == [st |-> "panic", err |-> msg]

\* JsError::new
JsError_new(s) == s

(***************************************************************************)
(* serde_json::Value, one record shape per variant.                        *)
(***************************************************************************)
JNull == [j |-> "Null"]
JBool(b) == [j |-> "Bool", b |-> b]
JNumber(n) == [j |-> "Number", n |-> n]
JString(s) == [j |-> "String", s |-> s]
JArray(a) == [j |-> "Array", a |-> a]
JObject(m) == [j |-> "Object", m |-> m]

(***************************************************************************)
(* CborPos and the span arithmetic.                                        *)
(***************************************************************************)
CborPos(offset, length) == [offset |-> offset, length |-> length]

End(pos) == pos.offset + pos.length

\* Faulty variant of extend_pos: the new length is the child's length, not
\* the distance from the frame's offset to the child's end.
extend_pos_child_length(struct_pos, value_pos) ==
    LET value_end == value_pos.offset + value_pos.length
        struct_end == struct_pos.offset + struct_pos.length
    IN  IF value_end > struct_end
        THEN CborPos(struct_pos.offset, value_pos.length)
        ELSE struct_pos

\* Faulty variant of extend_pos: the span is rebuilt up to the child's end
\* whether or not the child reaches past the frame's end.
extend_pos_no_guard(struct_pos, value_pos) ==
    LET value_end == value_pos.offset + value_pos.length
    IN  CborPos(struct_pos.offset, value_end - struct_pos.offset)

extend_pos(struct_pos, value_pos) ==
    LET value_end == value_pos.offset + value_pos.length
        struct_end == struct_pos.offset + struct_pos.length
    IN  IF value_end > struct_end
        THEN CborPos(struct_pos.offset, value_end - struct_pos.offset)
        ELSE struct_pos

cbor_pos_to_value(pos) ==
    JObject([offset |-> JNumber(pos.offset), length |-> JNumber(pos.length)])

\* Faulty variant of build_map_value: key and value change places.
build_map_value_swapped(key, value) == JObject([key |-> value, value |-> key])

build_map_value(key, value) == JObject([key |-> key, value |-> value])

(***************************************************************************)
(* minicbor tokens.  A Token is its kind and its payload (n: an integer,   *)
(* s: a text, b: a boolean, f: a float [finite, n], bytes: a sequence of   *)
(* bytes, tag: [t] or [t |-> "Unassigned", u]); an ExtendedToken adds the  *)
(* span the tokenizer reports.                                             *)
(***************************************************************************)
TokK(kind) == [kind |-> kind]
TokN(kind, n) == [kind |-> kind, n |-> n]
TokS(kind, s) == [kind |-> kind, s |-> s]
TokB(kind, b) == [kind |-> kind, b |-> b]
TokF(kind, f) == [kind |-> kind, f |-> f]
TokT(kind, tag) == [kind |-> kind, tag |-> tag]
ExtendedToken(token, offset, length) ==
    [token |-> token, offset |-> offset, length |-> length]

get_token_name(token) == token.kind

get_tag_name(tag) ==
    IF tag.t = "Unassigned"
    THEN "Unassigned(" \o ToString(tag.u) \o ")"
    ELSE tag.t

is_token_collection(token) ==
    token.kind \in {"Array", "Map", "BeginArray", "BeginMap", "Tag"}

\* the free function is_collection_finished(token: &Token)
is_collection_finished_token(token) == token.kind = "Break"

\* hex::encode over a sequence of bytes
HexDigit(n) ==
    <<"0", "1", "2", "3", "4", "5", "6", "7",
      "8", "9", "a", "b", "c", "d", "e", "f">>[n + 1]

RECURSIVE hex_encode(_)
hex_encode(b) ==
    IF b = <<>> THEN ""
    ELSE HexDigit(b[1] \div 16) \o HexDigit(b[1] % 16) \o hex_encode(Tail(b))

\* Faulty variant of token_to_value: a number that cannot be converted is
\* reported as an error instead of being unwrapped.
token_to_value_checked(token) ==
    CASE token.kind \in {"Null", "Undefined", "Break"} -> Ok(JNull)
      [] token.kind = "Bool" -> Ok(JBool(token.b))
      [] token.kind \in {"U8", "U16", "U32", "U64", "I8", "I16", "I32", "I64",
                         "Simple"} -> Ok(JNumber(token.n))
      [] token.kind = "Int" ->
            IF token.n >= 0 THEN Ok(JNumber(token.n))
            ELSE Err(JsError_new("Token is not a value"))
      [] token.kind \in {"F16", "F32", "F64"} ->
            IF token.f.finite THEN Ok(JNumber(token.f.n))
            ELSE Err(JsError_new("Token is not a value"))
      [] token.kind = "Bytes" -> Ok(JString(hex_encode(token.bytes)))
      [] token.kind = "String" -> Ok(JString(token.s))
      [] OTHER -> Err(JsError_new("Token is not a value"))

\* Faulty variant of token_to_value: a token that carries no value is given
\* the value null instead of being refused.
token_to_value_lenient(token) ==
    CASE token.kind = "Bool" -> Ok(JBool(token.b))
      [] token.kind \in {"U8", "U16", "U32", "U64", "I8", "I16", "I32", "I64",
                         "Simple"} -> Ok(JNumber(token.n))
      [] token.kind = "Int" ->
            IF token.n >= 0 THEN Ok(JNumber(token.n)) ELSE Panic("unwrap on Err")
      [] token.kind \in {"F16", "F32", "F64"} ->
            IF token.f.finite THEN Ok(JNumber(token.f.n)) ELSE Panic("unwrap on None")
      [] token.kind = "Bytes" -> Ok(JString(hex_encode(token.bytes)))
      [] token.kind = "String" -> Ok(JString(token.s))
      [] OTHER -> Ok(JNull)

token_to_value(token) ==
    CASE token.kind = "Null" -> Ok(JNull)
      [] token.kind = "Bool" -> Ok(JBool(token.b))
      [] token.kind \in {"U8", "U16", "U32", "U64"} -> Ok(JNumber(token.n))
      [] token.kind \in {"I8", "I16", "I32", "I64"} -> Ok(JNumber(token.n))
      [] token.kind = "Int" ->
            \* minicbor's Int spans -2^64 .. 2^64-1: TryInto<u64> fails iff negative
            IF token.n >= 0
            THEN Ok(JNumber(token.n))
            ELSE Panic("unwrap on Err")
      [] token.kind \in {"F16", "F32", "F64"} ->
            IF token.f.finite
            THEN Ok(JNumber(token.f.n))
            ELSE Panic("unwrap on None")
      [] token.kind = "Bytes" -> Ok(JString(hex_encode(token.bytes)))
      [] token.kind = "String" -> Ok(JString(token.s))
      [] token.kind = "Simple" -> Ok(JNumber(token.n))
      [] token.kind = "Undefined" -> Ok(JNull)
      [] token.kind = "Break" -> Ok(JNull)
      [] OTHER -> Err(JsError_new("Token is not a value"))

extended_token_to_value(token, pos) ==
    LET token_value == token_to_value(token.token)
    IN  IF token_value.st # "ok" THEN token_value
        ELSE Ok(JObject([position_info |-> cbor_pos_to_value(pos),
                         type |-> JString(get_token_name(token.token)),
                         value |-> token_value.v]))

(***************************************************************************)
(* CborCollection: the three kinds of frame.                               *)
(***************************************************************************)
ArrayFrame(array, len, count, pos, total_size) ==
    [kind |-> "Array", array |-> array, len |-> len, count |-> count,
     pos |-> pos, total_size |-> total_size]

MapFrame(map, key, len, count, pos, total_size) ==
    [kind |-> "Map", map |-> map, key |-> key, len |-> len, count |-> count,
     pos |-> pos, total_size |-> total_size]

TagFrame(value, tag, pos, total_size) ==
    [kind |-> "Tag", value |-> value, tag |-> tag,
     pos |-> pos, total_size |-> total_size]

\* Faulty variant of new_array: the root declares a length of zero.
new_array_definite == ArrayFrame(JArray(<<>>), Some(0), 0, CborPos(0, 0), CborPos(0, 0))

new_array == ArrayFrame(JArray(<<>>), None, 0, CborPos(0, 0), CborPos(0, 0))

\* Faulty variant of new_collection: the accumulated span starts empty at
\* offset zero, as the root's does, instead of at the token's span.
new_collection_root_span(token) ==
    LET pos == CborPos(token.offset, token.length)
        zero == CborPos(0, 0)
        t == token.token
    IN  CASE t.kind = "BeginArray" ->
                Ok(ArrayFrame(JArray(<<>>), None, 0, pos, zero))
          [] t.kind = "BeginMap" ->
                Ok(MapFrame(JArray(<<>>), None, None, 0, pos, zero))
          [] t.kind = "Array" ->
                Ok(ArrayFrame(JArray(<<>>), Some(t.n), 0, pos, zero))
          [] t.kind = "Map" ->
                Ok(MapFrame(JArray(<<>>), None, Some(t.n), 0, pos, zero))
          [] t.kind = "Tag" -> Ok(TagFrame(None, t.tag, pos, zero))
          [] OTHER -> Err(JsError_new("Invalid token"))

new_collection(token) ==
    LET pos == CborPos(token.offset, token.length)
        t == token.token
    IN  CASE t.kind = "BeginArray" ->
                Ok(ArrayFrame(JArray(<<>>), None, 0, pos, pos))
          [] t.kind = "BeginMap" ->
                Ok(MapFrame(JArray(<<>>), None, None, 0, pos, pos))
          [] t.kind = "Array" ->
                Ok(ArrayFrame(JArray(<<>>), Some(t.n), 0, pos, pos))
          [] t.kind = "Map" ->
                Ok(MapFrame(JArray(<<>>), None, Some(t.n), 0, pos, pos))
          [] t.kind = "Tag" -> Ok(TagFrame(None, t.tag, pos, pos))
          [] OTHER -> Err(JsError_new("Invalid token"))

\* Faulty variants of the Array branch of add_value: the new value is put in
\* front; a finalizer does not extend the span; a finalizer is not pushed;
\* the length check is off by one.
add_value_array_prepend(self, new_value, value_pos, finalizer) ==
    IF is_some(self.len) /\ self.count >= unwrap(self.len)
    THEN [res |-> Err(JsError_new("Array is full")), self |-> self]
    ELSE [res |-> Ok(<<>>),
          self |-> [self EXCEPT
              !.array = JArray(<<new_value>> \o self.array.a),
              !.count = IF ~finalizer THEN self.count + 1 ELSE self.count,
              !.total_size = extend_pos(self.total_size, value_pos)]]

add_value_array_finalizer_no_span(self, new_value, value_pos, finalizer) ==
    IF is_some(self.len) /\ self.count >= unwrap(self.len)
    THEN [res |-> Err(JsError_new("Array is full")), self |-> self]
    ELSE [res |-> Ok(<<>>),
          self |-> [self EXCEPT
              !.array = JArray(Append(self.array.a, new_value)),
              !.count = IF ~finalizer THEN self.count + 1 ELSE self.count,
              !.total_size = IF ~finalizer
                             THEN extend_pos(self.total_size, value_pos)
                             ELSE self.total_size]]

add_value_array_finalizer_no_push(self, new_value, value_pos, finalizer) ==
    IF is_some(self.len) /\ self.count >= unwrap(self.len)
    THEN [res |-> Err(JsError_new("Array is full")), self |-> self]
    ELSE [res |-> Ok(<<>>),
          self |-> [self EXCEPT
              !.array = IF ~finalizer
                        THEN JArray(Append(self.array.a, new_value))
                        ELSE self.array,
              !.count = IF ~finalizer THEN self.count + 1 ELSE self.count,
              !.total_size = extend_pos(self.total_size, value_pos)]]

add_value_array_off_by_one(self, new_value, value_pos, finalizer) ==
    IF is_some(self.len) /\ self.count > unwrap(self.len)
    THEN [res |-> Err(JsError_new("Array is full")), self |-> self]
    ELSE [res |-> Ok(<<>>),
          self |-> [self EXCEPT
              !.array = JArray(Append(self.array.a, new_value)),
              !.count = IF ~finalizer THEN self.count + 1 ELSE self.count,
              !.total_size = extend_pos(self.total_size, value_pos)]]

\* Faulty variant of the Tag branch of add_value: a second value replaces
\* the first.
add_value_tag_overwrite(self, new_value, value_pos, finalizer) ==
    [res |-> Ok(<<>>),
     self |-> [self EXCEPT
         !.value = Some(new_value),
         !.total_size = extend_pos(self.total_size, value_pos)]]

\* add_value mutates self and returns Result<(), JsError>:
\* [res |-> the result, self |-> the frame after the call]
\* Faulty variant of add_value_array: the finalizer flag is read the wrong
\* way round, so only a finalizer is counted.
add_value_array_inverted_flag(self, new_value, value_pos, finalizer) ==
    IF is_some(self.len) /\ self.count >= unwrap(self.len)
    THEN [res |-> Err(JsError_new("Array is full")), self |-> self]
    ELSE IF self.array.j # "Array"
    THEN [res |-> Err(JsError_new("Invalid array")), self |-> self]
    ELSE [res |-> Ok(<<>>),
          self |-> [self EXCEPT
              !.array = JArray(Append(self.array.a, new_value)),
              !.count = IF finalizer THEN self.count + 1 ELSE self.count,
              !.total_size = extend_pos(self.total_size, value_pos)]]

add_value_array(self, new_value, value_pos, finalizer) ==
    IF is_some(self.len) /\ self.count >= unwrap(self.len)
    THEN [res |-> Err(JsError_new("Array is full")), self |-> self]
    ELSE IF self.array.j # "Array"
    THEN [res |-> Err(JsError_new("Invalid array")), self |-> self]
    ELSE [res |-> Ok(<<>>),
          self |-> [self EXCEPT
              !.array = JArray(Append(self.array.a, new_value)),
              !.count = IF ~finalizer THEN self.count + 1 ELSE self.count,
              !.total_size = extend_pos(self.total_size, value_pos)]]

\* Faulty variant of add_value_map: a new pair goes to the front of the list.
add_value_map_prepend(self, new_value, value_pos, finalizer) ==
    IF is_some(self.len) /\ self.count >= unwrap(self.len)
    THEN [res |-> Err(JsError_new("Map is full")), self |-> self]
    ELSE IF is_none(self.key)
    THEN [res |-> Ok(<<>>), self |-> [self EXCEPT !.key = Some(new_value)]]
    ELSE IF self.map.j # "Array"
    THEN [res |-> Err(JsError_new("Invalid array")), self |-> self]
    ELSE [res |-> Ok(<<>>),
          self |-> [self EXCEPT
              !.map = JArray(<<build_map_value(unwrap(self.key), new_value)>>
                             \o self.map.a),
              !.count = IF ~finalizer THEN self.count + 1 ELSE self.count,
              !.total_size = extend_pos(self.total_size, value_pos),
              !.key = None]]

\* Faulty variant of add_value_map: storing a key extends the accumulated
\* span by the key's span.
add_value_map_key_extends(self, new_value, value_pos, finalizer) ==
    IF is_some(self.len) /\ self.count >= unwrap(self.len)
    THEN [res |-> Err(JsError_new("Map is full")), self |-> self]
    ELSE IF is_none(self.key)
    THEN [res |-> Ok(<<>>),
          self |-> [self EXCEPT !.key = Some(new_value),
                                !.total_size = extend_pos(self.total_size, value_pos)]]
    ELSE IF self.map.j # "Array"
    THEN [res |-> Err(JsError_new("Invalid array")), self |-> self]
    ELSE [res |-> Ok(<<>>),
          self |-> [self EXCEPT
              !.map = JArray(Append(self.map.a,
                                    build_map_value(unwrap(self.key), new_value))),
              !.count = IF ~finalizer THEN self.count + 1 ELSE self.count,
              !.total_size = extend_pos(self.total_size, value_pos),
              !.key = None]]

add_value_map(self, new_value, value_pos, finalizer) ==
    IF is_some(self.len) /\ self.count >= unwrap(self.len)
    THEN [res |-> Err(JsError_new("Map is full")), self |-> self]
    ELSE IF is_none(self.key)
    THEN [res |-> Ok(<<>>), self |-> [self EXCEPT !.key = Some(new_value)]]
    ELSE IF self.map.j # "Array"
    THEN [res |-> Err(JsError_new("Invalid array")), self |-> self]
    ELSE [res |-> Ok(<<>>),
          self |-> [self EXCEPT
              !.map = JArray(Append(self.map.a,
                                    build_map_value(unwrap(self.key), new_value))),
              !.count = IF ~finalizer THEN self.count + 1 ELSE self.count,
              !.total_size = extend_pos(self.total_size, value_pos),
              !.key = None]]

add_value_tag(self, new_value, value_pos, finalizer) ==
    IF is_some(self.value)
    THEN [res |-> Err(JsError_new("Tag already has a value")), self |-> self]
    ELSE [res |-> Ok(<<>>),
          self |-> [self EXCEPT
              !.value = Some(new_value),
              !.total_size = extend_pos(self.total_size, value_pos)]]

add_value(self, new_value, value_pos, finalizer) ==
    CASE self.kind = "Array" -> add_value_array(self, new_value, value_pos, finalizer)
      [] self.kind = "Map" -> add_value_map(self, new_value, value_pos, finalizer)
      [] self.kind = "Tag" -> add_value_tag(self, new_value, value_pos, finalizer)

\* Faulty variant of is_collection_finished: a definite-length frame is
\* finished only when its count exceeds the declared length.
is_collection_finished_strict(self) ==
    CASE self.kind = "Array" /\ is_some(self.len) -> self.count > unwrap(self.len)
      [] self.kind = "Map" /\ is_some(self.len) -> self.count > unwrap(self.len)
      [] self.kind = "Tag" /\ is_some(self.value) -> TRUE
      [] OTHER -> FALSE

\* Faulty variant of is_collection_finished: a declared length of zero is
\* taken for no declared length.
is_collection_finished_nonzero(self) ==
    CASE self.kind \in {"Array", "Map"} /\ is_some(self.len) ->
            unwrap(self.len) > 0 /\ self.count >= unwrap(self.len)
      [] self.kind = "Tag" /\ is_some(self.value) -> TRUE
      [] OTHER -> FALSE

\* Faulty variant of is_collection_finished: an array or map with no declared
\* length counts as finished.
is_collection_finished_unbounded(self) ==
    CASE self.kind = "Array" /\ is_some(self.len) -> self.count >= unwrap(self.len)
      [] self.kind = "Map" /\ is_some(self.len) -> self.count >= unwrap(self.len)
      [] self.kind = "Tag" -> is_some(self.value)
      [] OTHER -> TRUE

\* Faulty variant of is_collection_finished: a tag counts as finished whether
\* or not it has its value.
is_collection_finished_any_tag(self) ==
    CASE self.kind = "Array" /\ is_some(self.len) -> self.count >= unwrap(self.len)
      [] self.kind = "Map" /\ is_some(self.len) -> self.count >= unwrap(self.len)
      [] self.kind = "Tag" -> TRUE
      [] OTHER -> FALSE

is_collection_finished(self) ==
    CASE self.kind = "Array" /\ is_some(self.len) -> self.count >= unwrap(self.len)
      [] self.kind = "Map" /\ is_some(self.len) -> self.count >= unwrap(self.len)
      [] self.kind = "Tag" /\ is_some(self.value) -> TRUE
      [] OTHER -> FALSE

LengthValue(length) ==
    IF is_some(length) THEN JNumber(unwrap(length)) ELSE JString("Indefinite")

to_value(self) ==
    CASE self.kind = "Array" ->
            Ok(JObject([type |-> JString("array"),
                        items |-> LengthValue(self.len),
                        position_info |-> cbor_pos_to_value(self.pos),
                        struct_position_info |-> cbor_pos_to_value(self.total_size),
                        values |-> self.array]))
      [] self.kind = "Map" ->
            Ok(JObject([type |-> JString("map"),
                        items |-> LengthValue(self.len),
                        position_info |-> cbor_pos_to_value(self.pos),
                        struct_position_info |-> cbor_pos_to_value(self.total_size),
                        values |-> self.map]))
      [] self.kind = "Tag" ->
            IF is_none(self.value)
            THEN Err(JsError_new("Tag has no value"))
            ELSE Ok(JObject([type |-> JString("tag"),
                             position_info |-> cbor_pos_to_value(self.pos),
                             struct_position_info |-> cbor_pos_to_value(self.total_size),
                             tag |-> JString(get_tag_name(self.tag)),
                             value |-> unwrap(self.value)]))

\* Faulty variant of to_simple_value: the root is rendered with its wrapper.
to_simple_value_wrapped(self) ==
    IF to_value(self).st = "ok" THEN to_value(self).v ELSE JNull

to_simple_value(self) ==
    CASE self.kind = "Array" -> self.array
      [] self.kind = "Map" -> self.map
      [] self.kind = "Tag" -> IF is_some(self.value) THEN unwrap(self.value) ELSE JNull

\* Faulty variant of get_full_pos: the header span is returned.
get_full_pos_header(self) == self.pos

get_full_pos(self) == self.total_size

(***************************************************************************)
(* The engine: get_value and collapse_collections.  An engine step returns *)
(* [st, err, cs]: how it ended and the stack at that point.                *)
(***************************************************************************)
Top(cs) == cs[Len(cs)]
Pop(cs) == SubSeq(cs, 1, Len(cs) - 1)
SetTop(cs, f) == [cs EXCEPT ![Len(cs)] = f]

Going(cs) == [st |-> "ok", err |-> "", cs |-> cs]
Failed(r, cs) == [st |-> r.st, err |-> r.err, cs |-> cs]

\* Faulty variant of collapse_collections: a finished frame is folded into
\* its parent as a finalizer, so the parent does not count it.
RECURSIVE collapse_collections_uncounted(_)
collapse_collections_uncounted(cs) ==
    IF Len(cs) = 0 THEN Failed(Panic("unwrap on None"), cs)
    ELSE IF ~is_collection_finished(Top(cs)) THEN Going(cs)
    ELSE LET last_collection == Top(cs)
             rest == Pop(cs)
             collection_pos == get_full_pos(last_collection)
         IN  IF Len(rest) = 0 THEN Failed(Panic("unwrap on None"), rest)
             ELSE LET doc == to_value(last_collection)
                  IN  IF doc.st # "ok" THEN Failed(doc, rest)
                      ELSE LET r == add_value(Top(rest), doc.v, collection_pos, TRUE)
                           IN  IF r.res.st # "ok"
                               THEN Failed(r.res, SetTop(rest, r.self))
                               ELSE collapse_collections_uncounted(SetTop(rest, r.self))

\* Faulty variant of collapse_collections: finished frames are left where
\* they are.
collapse_collections_skipped(cs) ==
    IF Len(cs) = 0 THEN Failed(Panic("unwrap on None"), cs) ELSE Going(cs)

\* Faulty variant of collapse_collections: it folds the top frame once and
\* does not look at the frame it folded into.
collapse_collections_once(cs) ==
    IF Len(cs) = 0 THEN Failed(Panic("unwrap on None"), cs)
    ELSE IF ~is_collection_finished(Top(cs)) THEN Going(cs)
    ELSE LET last_collection == Top(cs)
             rest == Pop(cs)
             collection_pos == get_full_pos(last_collection)
         IN  IF Len(rest) = 0 THEN Failed(Panic("unwrap on None"), rest)
             ELSE LET doc == to_value(last_collection)
                  IN  IF doc.st # "ok" THEN Failed(doc, rest)
                      ELSE LET r == add_value(Top(rest), doc.v, collection_pos, FALSE)
                           IN  IF r.res.st # "ok"
                               THEN Failed(r.res, SetTop(rest, r.self))
                               ELSE Going(SetTop(rest, r.self))

RECURSIVE collapse_collections(_)
collapse_collections(cs) ==
    IF Len(cs) = 0 THEN Failed(Panic("unwrap on None"), cs)
    ELSE IF ~is_collection_finished(Top(cs)) THEN Going(cs)
    ELSE LET last_collection == Top(cs)
             rest == Pop(cs)
             collection_pos == get_full_pos(last_collection)
         IN  IF Len(rest) = 0 THEN Failed(Panic("unwrap on None"), rest)
             ELSE LET doc == to_value(last_collection)
                  IN  IF doc.st # "ok" THEN Failed(doc, rest)
                      ELSE LET r == add_value(Top(rest), doc.v, collection_pos, FALSE)
                           IN  IF r.res.st # "ok"
                               THEN Failed(r.res, SetTop(rest, r.self))
                               ELSE collapse_collections(SetTop(rest, r.self))

\* Faulty variant of break_step: the closed collection is folded into its
\* parent as a finalizer.
break_step_fold_as_finalizer(cs, token, token_pos) ==
    LET last_collection == Top(cs)
        rest == Pop(cs)
        finalizer == extended_token_to_value(token, token_pos)
    IN  IF finalizer.st # "ok" THEN Failed(finalizer, rest)
        ELSE LET a == add_value(last_collection, finalizer.v, token_pos, TRUE)
             IN  IF a.res.st # "ok" THEN Failed(a.res, rest)
                 ELSE LET collection_pos == get_full_pos(a.self)
                      IN  IF Len(rest) = 0 THEN Failed(Panic("unwrap on None"), rest)
                          ELSE LET doc == to_value(a.self)
                               IN  IF doc.st # "ok" THEN Failed(doc, rest)
                                   ELSE LET r == add_value(Top(rest), doc.v,
                                                           collection_pos, TRUE)
                                        IN  IF r.res.st # "ok"
                                            THEN Failed(r.res, SetTop(rest, r.self))
                                            ELSE Going(SetTop(rest, r.self))

\* get_value, lines 199-209: the token is a Break
break_step(cs, token, token_pos) ==
    LET last_collection == Top(cs)
        rest == Pop(cs)
        finalizer == extended_token_to_value(token, token_pos)
    IN  IF finalizer.st # "ok" THEN Failed(finalizer, rest)
        ELSE LET a == add_value(last_collection, finalizer.v, token_pos, TRUE)
             IN  IF a.res.st # "ok" THEN Failed(a.res, rest)
                 ELSE LET collection_pos == get_full_pos(a.self)
                      IN  IF Len(rest) = 0 THEN Failed(Panic("unwrap on None"), rest)
                          ELSE LET doc == to_value(a.self)
                               IN  IF doc.st # "ok" THEN Failed(doc, rest)
                                   ELSE LET r == add_value(Top(rest), doc.v,
                                                           collection_pos, FALSE)
                                        IN  IF r.res.st # "ok"
                                            THEN Failed(r.res, SetTop(rest, r.self))
                                            ELSE Going(SetTop(rest, r.self))

\* Faulty variant of open_step: the new frame is pushed twice.
open_step_double_push(cs, token) ==
    LET new == new_collection(token)
    IN  IF new.st # "ok" THEN Failed(new, cs)
        ELSE Going(Append(Append(cs, new.v), new.v))

\* get_value, lines 213-217: the token opens a collection
open_step(cs, token) ==
    LET new == new_collection(token)
    IN  IF new.st # "ok" THEN Failed(new, cs) ELSE Going(Append(cs, new.v))

\* Faulty variant of scalar_step: the scalar is rendered with the span its
\* frame has grown to, not with its own.
scalar_step_frame_span(cs, token, token_pos) ==
    LET new_value == extended_token_to_value(
                         token, extend_pos(Top(cs).total_size, token_pos))
    IN  IF new_value.st # "ok" THEN Failed(new_value, cs)
        ELSE LET r == add_value(Top(cs), new_value.v, token_pos, FALSE)
             IN  IF r.res.st # "ok"
                 THEN Failed(r.res, SetTop(cs, r.self))
                 ELSE Going(SetTop(cs, r.self))

\* get_value, lines 219-220: the token is routed as a scalar
scalar_step(cs, token, token_pos) ==
    LET new_value == extended_token_to_value(token, token_pos)
    IN  IF new_value.st # "ok" THEN Failed(new_value, cs)
        ELSE LET r == add_value(Top(cs), new_value.v, token_pos, FALSE)
             IN  IF r.res.st # "ok"
                 THEN Failed(r.res, SetTop(cs, r.self))
                 ELSE Going(SetTop(cs, r.self))

\* Faulty variant of loop_body: the token is routed without collapsing the
\* finished frames first.
loop_body_no_collapse(cs, token) ==
    LET token_pos == CborPos(token.offset, token.length)
    IN  IF is_collection_finished_token(token.token)
        THEN break_step(cs, token, token_pos)
        ELSE IF is_token_collection(token.token)
        THEN open_step(cs, token)
        ELSE scalar_step(cs, token, token_pos)

\* get_value, lines 192-220: one iteration of the loop over the tokens
loop_body(cs, token) ==
    LET token_pos == CborPos(token.offset, token.length)
        c1 == collapse_collections(cs)
    IN  IF c1.st # "ok" THEN c1
        ELSE IF is_collection_finished_token(token.token)
        THEN break_step(c1.cs, token, token_pos)
        ELSE LET c2 == collapse_collections(c1.cs)
             IN  IF c2.st # "ok" THEN c2
                 ELSE IF is_token_collection(token.token)
                 THEN open_step(c2.cs, token)
                 ELSE scalar_step(c2.cs, token, token_pos)

\* Faulty variant of after_loop: the final collapse is left out.
after_loop_no_collapse(cs) ==
    IF Len(cs) # 1
    THEN Failed(Err(JsError_new("Invalid CBOR")), cs) @@ [v |-> JNull]
    ELSE [st |-> "ok", err |-> "", cs |-> Pop(cs), v |-> to_simple_value(Top(cs))]

\* get_value, lines 223-229: after the loop.  [st, err, cs, v]
after_loop(cs) ==
    LET c == collapse_collections(cs)
    IN  IF c.st # "ok" THEN c @@ [v |-> JNull]
        ELSE IF Len(c.cs) # 1
        THEN Failed(Err(JsError_new("Invalid CBOR")), c.cs) @@ [v |-> JNull]
        ELSE [st |-> "ok", err |-> "", cs |-> Pop(c.cs),
              v |-> to_simple_value(Top(c.cs))]

minicbor_to_js_error(error) == JsError_new("Error(" \o error \o ")")

(***************************************************************************)
(* The token source.  Tokens are contiguous: each starts where the one     *)
(* before it ended, and occupies the bytes of its own encoding.            *)
(***************************************************************************)
NaN == [finite |-> FALSE, n |-> 0]

\* the bytes of a token's encoding: an unsigned integer below 24 sits in the
\* initial byte, a larger U8 takes one more; a text takes its bytes after the
\* header; a double or a big integer takes eight
TokLen(token) ==
    CASE token.kind = "U8" -> IF token.n < 24 THEN 1 ELSE 1 + 1
      [] token.kind = "String" -> 1 + 1
      [] token.kind \in {"F64", "Int"} -> 1 + 8
      [] token.kind = "Bytes" -> 1 + Len(token.bytes)
      [] OTHER -> 1

\* the tokens of the decode driver: a scalar, the headers of short definite
\* collections, the indefinite openers, a tag, the Break, and two tokens
\* that cannot be rendered (an indefinite byte string, a NaN)
DecodeTokens ==
    {TokN("U8", 24)}
    \cup {TokN("Array", n) : n \in {0, 1, 2}}
    \cup {TokN("Map", n) : n \in {0, 1}}
    \cup {TokK("BeginArray"), TokK("BeginMap"), TokT("Tag", [t |-> "DateTime"]),
          TokK("Break")}
    \cup {TokK("BeginBytes"), TokF("F64", NaN)}

ScenarioTokens ==
    {TokN("Array", 3), TokN("U8", 1), TokS("String", "a"), TokN("Map", 1),
     TokS("String", "k"), TokB("Bool", TRUE)}

SourceErrors == {"EndOfInput"}

Alphabet == IF mode = "scenario" THEN ScenarioTokens ELSE DecodeTokens
Limit == IF mode = "scenario" THEN ScenarioLen ELSE MaxTokens

NextOffset ==
    IF consumed = <<>> THEN 0
    ELSE consumed[Len(consumed)].offset + consumed[Len(consumed)].length

NextToken(t) == ExtendedToken(t, NextOffset, TokLen(t))

\* Faulty variant of Running: the loop goes on after a failed step.
Running_past_errors == mode \in {"decode", "scenario"} /\ ~eof

\* the loop is still running: every `?` and `return` leaves it for good
Running == mode \in {"decode", "scenario"} /\ outcome.status = "running" /\ ~eof

Running0 == [status |-> "running", error |-> "", value |-> JNull]

NoCall ==
    [op |-> "none", res |-> Ok(<<>>), before |-> None, finalizer |-> FALSE,
     n |-> 0, accepted |-> <<>>, cursor |-> 0]

(***************************************************************************)
(* get_value as a state machine: one action per token, by the branch of    *)
(* the loop body that routes it, one for a tokenizer error and one for the *)
(* end of the stream.                                                      *)
(***************************************************************************)
InitEngine ==
    /\ consumed = <<>>
    /\ collections = <<new_array>>
    /\ outcome = Running0
    /\ eof = FALSE
    /\ frame = None
    /\ last = NoCall

InitScenario == mode = "scenario" /\ InitEngine

Apply(token, r) ==
    /\ consumed' = Append(consumed, token)
    /\ collections' = r.cs
    /\ outcome' = IF r.st = "ok" THEN outcome
                  ELSE [status |-> r.st, error |-> r.err, value |-> JNull]
    /\ UNCHANGED <<mode, eof, frame, last>>

ConsumeBreak ==
    /\ Running /\ Len(consumed) < Limit
    /\ \E t \in Alphabet :
          /\ is_collection_finished_token(t)
          /\ Apply(NextToken(t), loop_body(collections, NextToken(t)))

ConsumeOpener ==
    /\ Running /\ Len(consumed) < Limit
    /\ \E t \in Alphabet :
          /\ ~is_collection_finished_token(t) /\ is_token_collection(t)
          /\ Apply(NextToken(t), loop_body(collections, NextToken(t)))

ConsumeScalar ==
    /\ Running /\ Len(consumed) < Limit
    /\ \E t \in Alphabet :
          /\ ~is_collection_finished_token(t) /\ ~is_token_collection(t)
          /\ Apply(NextToken(t), loop_body(collections, NextToken(t)))

TokenSourceError ==
    /\ Running /\ Len(consumed) < Limit
    /\ \E e \in SourceErrors :
          outcome' = [status |-> "err", error |-> minicbor_to_js_error(e),
                      value |-> JNull]
    /\ UNCHANGED <<mode, consumed, collections, eof, frame, last>>

EndOfStream ==
    /\ Running
    /\ LET r == after_loop(collections)
       IN  /\ collections' = r.cs
           /\ outcome' = [status |-> r.st, error |-> r.err, value |-> r.v]
    /\ eof' = TRUE
    /\ UNCHANGED <<mode, consumed, frame, last>>

(***************************************************************************)
(* The frame driver: a caller of the CborCollection API.  It builds one    *)
(* frame with new_collection, calls add_value on it with values and flags  *)
(* of its choice, and may close it with to_value.  `last` records the call *)
(* just made: the frame before it, its result, and the values add_value    *)
(* has accepted so far.                                                    *)
(***************************************************************************)
FrameOpeners ==
    {TokN("Array", n) : n \in 0..MaxDecl}
    \cup {TokN("Map", n) : n \in 0..MaxDecl}
    \cup {TokK("BeginArray"), TokK("BeginMap"), TokT("Tag", [t |-> "Unassigned", u |-> 42])}

FrameValues == {TokN("U8", 1), TokS("String", "a")}

InitFrame ==
    /\ mode = "frame"
    /\ consumed = <<>>
    /\ collections = <<>>
    /\ outcome = Running0
    /\ eof = FALSE
    /\ frame = None
    /\ last = NoCall

FrameNew ==
    /\ mode = "frame" /\ last.op = "none"
    /\ \E t \in FrameOpeners \cup FrameValues :
          LET token == ExtendedToken(t, 0, TokLen(t))
              r == new_collection(token)
          IN  /\ frame' = IF r.st = "ok" THEN Some(r.v) ELSE None
              /\ last' = [last EXCEPT !.op = "new_collection", !.res = r,
                                       !.cursor = TokLen(t)]
    /\ UNCHANGED <<mode, consumed, collections, outcome, eof>>

FrameAdd ==
    /\ mode = "frame" /\ is_some(frame) /\ last.n < MaxCalls
    /\ \E t \in FrameValues, finalizer \in BOOLEAN :
          LET value_pos == CborPos(last.cursor, TokLen(t))
              new_value == extended_token_to_value(
                               ExtendedToken(t, last.cursor, TokLen(t)), value_pos).v
              r == add_value(unwrap(frame), new_value, value_pos, finalizer)
          IN  /\ frame' = Some(r.self)
              /\ last' = [op |-> "add_value", res |-> r.res, before |-> frame,
                          finalizer |-> finalizer, n |-> last.n + 1,
                          accepted |-> IF r.res.st = "ok"
                                       THEN Append(last.accepted, new_value)
                                       ELSE last.accepted,
                          cursor |-> last.cursor + TokLen(t)]
    /\ UNCHANGED <<mode, consumed, collections, outcome, eof>>

\* to_value takes the frame by value: the frame is gone after the call
FrameClose ==
    /\ mode = "frame" /\ is_some(frame)
    /\ frame' = None
    /\ last' = [last EXCEPT !.op = "to_value", !.res = to_value(unwrap(frame)),
                             !.before = frame]
    /\ UNCHANGED <<mode, consumed, collections, outcome, eof>>

(***************************************************************************)
(* The builder driver: a caller of the two Document Builder functions,     *)
(* token_to_value and extended_token_to_value, on one token of any kind    *)
(* at a position of its choice.  `consumed` holds the token, `last` the    *)
(* function called and what it returned.                                   *)
(***************************************************************************)
BuilderTokens ==
    {TokK("Null"), TokK("Undefined"), TokB("Bool", TRUE), TokB("Bool", FALSE),
     TokN("U8", 7), TokN("I8", -3), TokN("Int", 5), TokN("Int", -1),
     TokN("Simple", 16), TokF("F64", [finite |-> TRUE, n |-> 1]), TokF("F64", NaN),
     TokS("String", "a"), [kind |-> "Bytes", bytes |-> <<171, 1>>]}
    \cup {TokK("Break"), TokK("BeginArray"), TokK("BeginMap"), TokK("BeginBytes"),
          TokK("BeginString"), TokN("Array", 1), TokN("Map", 1),
          TokT("Tag", [t |-> "DateTime"])}

BuilderOffsets == {0, 5}

InitBuilder ==
    /\ mode = "builder"
    /\ consumed = <<>>
    /\ collections = <<>>
    /\ outcome = Running0
    /\ eof = FALSE
    /\ frame = None
    /\ last = NoCall

BuildValue ==
    /\ mode = "builder" /\ last.op = "none"
    /\ \E t \in BuilderTokens, offset \in BuilderOffsets,
          op \in {"token_to_value", "extended_token_to_value"} :
          LET token == ExtendedToken(t, offset, TokLen(t))
              pos == CborPos(token.offset, token.length)
          IN  /\ consumed' = <<token>>
              /\ last' = [last EXCEPT
                     !.op = op,
                     !.res = IF op = "token_to_value"
                             THEN token_to_value(token.token)
                             ELSE extended_token_to_value(token, pos)]
    /\ UNCHANGED <<mode, collections, outcome, eof, frame>>

(***************************************************************************)
(* The span driver: a caller of extend_pos on two spans of its choice,     *)
(* which may then extend the result by the same span again.  `last` holds  *)
(* the two spans (before), the result so far (res) and the number of calls *)
(* made (n).                                                               *)
(***************************************************************************)
Spans == {CborPos(offset, length) : offset \in 0..MaxSpan, length \in 0..MaxSpan}

InitSpan ==
    /\ mode = "span"
    /\ consumed = <<>>
    /\ collections = <<>>
    /\ outcome = Running0
    /\ eof = FALSE
    /\ frame = None
    /\ last = NoCall

ExtendSpan ==
    /\ mode = "span" /\ last.op = "none"
    /\ \E struct_pos \in Spans, value_pos \in Spans :
          last' = [last EXCEPT
                     !.op = "extend_pos",
                     !.before = Some([struct_pos |-> struct_pos,
                                      value_pos |-> value_pos]),
                     !.res = Ok(extend_pos(struct_pos, value_pos)),
                     !.n = 1]
    /\ UNCHANGED <<mode, consumed, collections, outcome, eof, frame>>

ExtendSpanAgain ==
    /\ mode = "span" /\ last.op = "extend_pos" /\ last.n = 1
    /\ last' = [last EXCEPT
                  !.res = Ok(extend_pos(last.res.v, unwrap(last.before).value_pos)),
                  !.n = 2]
    /\ UNCHANGED <<mode, consumed, collections, outcome, eof, frame>>

Init == (mode = "decode" /\ InitEngine) \/ InitFrame \/ InitBuilder \/ InitSpan

Next ==
    \/ ConsumeBreak
    \/ ConsumeOpener
    \/ ConsumeScalar
    \/ TokenSourceError
    \/ EndOfStream
    \/ FrameNew
    \/ FrameAdd
    \/ FrameClose
    \/ BuildValue
    \/ ExtendSpan
    \/ ExtendSpanAgain

Spec == Init /\ [][Next]_vars

\* get_value alone, over a finite stream: the loop takes the next token or
\* leaves, and the token source, never suspended, reports the end of the
\* stream in the end.  That step (EndOfStream, the one that sets eof) can be
\* taken in every state of a running decode.
NextDecode ==
    \/ ConsumeBreak
    \/ ConsumeOpener
    \/ ConsumeScalar
    \/ TokenSourceError
    \/ EndOfStream

InitDecode == mode = "decode" /\ InitEngine

SpecTermination ==
    /\ InitDecode
    /\ [][NextDecode]_vars
    /\ WF_eof(Running /\ eof' = TRUE)

\* the scenario driver: get_value over the tokens of the round-trip scenario
NextScenario ==
    \/ ConsumeOpener
    \/ ConsumeScalar
    \/ TokenSourceError
    \/ EndOfStream

SpecScenario == InitScenario /\ [][NextScenario]_vars

(***************************************************************************)
(* Vocabulary of the properties.                                           *)
(*                                                                         *)
(* The CBOR grammar over a token sequence, written independently of the    *)
(* engine.  ItemEnd(s, i) is the index after the complete item that starts *)
(* at s[i]; Incomplete when the tokens run out inside it; Malformed when   *)
(* a token cannot stand where it is.  A scalar is a token that carries a   *)
(* representable value.                                                    *)
(***************************************************************************)
ScalarKinds ==
    {"Null", "Bool", "U8", "U16", "U32", "U64", "I8", "I16", "I32", "I64",
     "Int", "F16", "F32", "F64", "Bytes", "String", "Simple", "Undefined"}

IsScalarToken(t) ==
    /\ t.kind \in ScalarKinds
    /\ t.kind = "Int" => t.n >= 0
    /\ t.kind \in {"F16", "F32", "F64"} => t.f.finite

EndsAt(i) == [st |-> "complete", next |-> i]
Incomplete == [st |-> "incomplete"]
Malformed == [st |-> "malformed"]

RECURSIVE ItemEnd(_, _)
RECURSIVE SeqEnd(_, _, _)
RECURSIVE BreakEnd(_, _, _)

ItemEnd(s, i) ==
    IF i > Len(s) THEN Incomplete
    ELSE LET t == s[i].token
         IN  CASE IsScalarToken(t) -> EndsAt(i + 1)
               [] t.kind = "Array" -> SeqEnd(s, i + 1, t.n)
               [] t.kind = "Map" -> SeqEnd(s, i + 1, 2 * t.n)
               [] t.kind = "Tag" -> ItemEnd(s, i + 1)
               [] t.kind = "BeginArray" -> BreakEnd(s, i + 1, 1)
               [] t.kind = "BeginMap" -> BreakEnd(s, i + 1, 2)
               [] OTHER -> Malformed

\* n complete items from s[i] on
SeqEnd(s, i, n) ==
    IF n = 0 THEN EndsAt(i)
    ELSE LET e == ItemEnd(s, i)
         IN  IF e.st # "complete" THEN e ELSE SeqEnd(s, e.next, n - 1)

\* groups of `step` complete items from s[i] on, up to and including a Break
BreakEnd(s, i, step) ==
    IF i > Len(s) THEN Incomplete
    ELSE IF s[i].token.kind = "Break" THEN EndsAt(i + 1)
    ELSE LET e == SeqEnd(s, i, step)
         IN  IF e.st # "complete" THEN e ELSE BreakEnd(s, e.next, step)

\* the start indices of the complete top-level items of s from s[i] on, and
\* how the stream ends: complete, incomplete or malformed
RECURSIVE TopStarts(_, _)
TopStarts(s, i) ==
    IF i > Len(s) THEN [st |-> "complete", starts |-> <<>>]
    ELSE LET e == ItemEnd(s, i)
         IN  IF e.st # "complete" THEN [st |-> e.st, starts |-> <<>>]
             ELSE LET rest == TopStarts(s, e.next)
                  IN  [st |-> rest.st, starts |-> <<i>> \o rest.starts]

Viable(s) == TopStarts(s, 1).st # "malformed"
Complete(s) == TopStarts(s, 1).st = "complete"

TokPos(s, i) == CborPos(s[i].offset, s[i].length)

\* the `type` a token's Document carries
TypeName(t) ==
    CASE t.kind \in {"Array", "BeginArray"} -> "array"
      [] t.kind \in {"Map", "BeginMap"} -> "map"
      [] t.kind = "Tag" -> "tag"
      [] OTHER -> t.kind

\* d is the Document of the item that token s[i] starts
IsDocOf(d, s, i) ==
    /\ d.j = "Object"
    /\ "type" \in DOMAIN d.m
    /\ d.m.type = JString(TypeName(s[i].token))
    /\ d.m.position_info = cbor_pos_to_value(TokPos(s, i))

\* every Document inside a Value, itself included, as a sequence
RECURSIVE Docs(_)
RECURSIVE DocsOfAll(_)
Docs(v) ==
    CASE v.j = "Array" -> DocsOfAll(v.a)
      [] v.j = "Object" /\ "type" \in DOMAIN v.m ->
            <<v>> \o (IF "values" \in DOMAIN v.m THEN DocsOfAll(v.m.values.a)
                      ELSE IF v.m.type = JString("tag") THEN Docs(v.m.value)
                      ELSE <<>>)
      [] v.j = "Object" /\ "key" \in DOMAIN v.m -> Docs(v.m.key) \o Docs(v.m.value)
      [] OTHER -> <<>>

DocsOfAll(a) == IF a = <<>> THEN <<>> ELSE Docs(Head(a)) \o DocsOfAll(Tail(a))

FrameDocs(f) ==
    CASE f.kind = "Array" -> Docs(f.array)
      [] f.kind = "Map" -> Docs(f.map) \o DocsOfAll(f.key)
      [] f.kind = "Tag" -> DocsOfAll(f.value)

RECURSIVE StackDocs(_)
StackDocs(cs) == IF cs = <<>> THEN <<>> ELSE FrameDocs(Head(cs)) \o StackDocs(Tail(cs))

\* every Document the decode holds in this state
StateDocs == StackDocs(collections) \o Docs(outcome.value)

SourceFailed == outcome.error \in {minicbor_to_js_error(e) : e \in SourceErrors}

Decoding == mode \in {"decode", "scenario"}

(***************************************************************************)
(* C1.  A token stream of k >= 1 complete top-level items that raises no   *)
(* token-source error decodes successfully to a plain array of exactly k   *)
(* Documents, the i-th being the Document of the i-th top-level item; the  *)
(* root frame adds no wrapper.  No token of a stream that can still be     *)
(* completed makes the decode fail.                                        *)
(***************************************************************************)
C1_TopLevelItems ==
    Decoding =>
        /\ (Viable(consumed) /\ ~SourceFailed /\ ~eof) => outcome.status = "running"
        /\ (eof /\ Complete(consumed) /\ Len(consumed) >= 1) =>
              LET starts == TopStarts(consumed, 1).starts
              IN  /\ outcome.status = "ok"
                  /\ outcome.value.j = "Array"
                  /\ collections = <<>>
                  /\ Len(outcome.value.a) = Len(starts)
                  /\ \A i \in DOMAIN starts :
                        IsDocOf(outcome.value.a[i], consumed, starts[i])

C1_Witness ==
    /\ mode = "decode" /\ eof /\ Complete(consumed) /\ outcome.status = "ok"
    /\ Len(consumed) = 4
    /\ Len(TopStarts(consumed, 1).starts) = 2
    /\ consumed[1].token.kind = "BeginArray"
    /\ consumed[4].token.kind = "U8"

(***************************************************************************)
(* C2.  A definite-length array header declaring N followed by exactly N   *)
(* scalar tokens is rendered as an array Document whose `items` is N and   *)
(* whose `values` are the N scalars' Documents in the order of the tokens. *)
(* The frame is rendered by the collapse of the next step: the next token  *)
(* or the end of the stream.                                               *)
(***************************************************************************)
ScalarsFollow(s, i) ==
    /\ s[i].token.kind = "Array"
    /\ i + s[i].token.n <= Len(s)
    /\ \A j \in (i + 1)..(i + s[i].token.n) : IsScalarToken(s[j].token)

C2_DefiniteArrayOfScalars ==
    Decoding => LET docs == StateDocs IN
        \A i \in DOMAIN consumed :
            ( /\ ScalarsFollow(consumed, i)
              /\ i + consumed[i].token.n < Len(consumed) \/ eof
              /\ outcome.status \in {"running", "ok"} \/ eof )
            => \E n \in DOMAIN docs : LET d == docs[n] IN
                  /\ IsDocOf(d, consumed, i)
                  /\ d.m.items = JNumber(consumed[i].token.n)
                  /\ d.m.values.j = "Array"
                  /\ Len(d.m.values.a) = consumed[i].token.n
                  /\ \A k \in 1..consumed[i].token.n :
                        IsDocOf(d.m.values.a[k], consumed, i + k)

C2_Witness ==
    /\ mode = "decode" /\ eof /\ outcome.status = "ok"
    /\ Len(consumed) = 3
    /\ consumed[1].token = TokN("Array", 2)
    /\ consumed[2].token.kind = "U8"
    /\ consumed[3].token.kind = "U8"

(***************************************************************************)
(* C3.  An indefinite-length array (BeginArray, complete items, Break)     *)
(* decodes: the Break that closes it raises no error, the rendered array   *)
(* has `items` = "Indefinite" and its `struct_position_info` ends where    *)
(* the closing Break token ends.                                           *)
(***************************************************************************)
SpanEnd(v) == v.m.offset.n + v.m.length.n

\* s[i] opens an indefinite array that a Break among the tokens closes
ClosedIndefArray(s, i) ==
    s[i].token.kind = "BeginArray" /\ ItemEnd(s, i).st = "complete"

C3_IndefiniteArraySpan ==
    Decoding => LET docs == StateDocs IN
        \A i \in DOMAIN consumed :
            ClosedIndefArray(consumed, i) =>
                LET brk == ItemEnd(consumed, i).next - 1
                IN  /\ (brk = Len(consumed) /\ ~eof /\ ~SourceFailed)
                          => outcome.status = "running"
                    /\ (outcome.status \in {"running", "ok"} \/ eof)
                          => \E n \in DOMAIN docs : LET d == docs[n] IN
                                /\ IsDocOf(d, consumed, i)
                                /\ d.m.items = JString("Indefinite")
                                /\ SpanEnd(d.m.struct_position_info)
                                      = End(TokPos(consumed, brk))

C3_Witness ==
    /\ mode = "decode" /\ outcome.status = "running"
    /\ Len(consumed) = 4
    /\ consumed[1].token.kind = "BeginArray"
    /\ consumed[2].token.kind = "U8"
    /\ consumed[3].token.kind = "U8"
    /\ consumed[4].token.kind = "Break"

(***************************************************************************)
(* C4.  The values of an indefinite-length array that a Break closes.      *)
(* ChildStarts(s, i, e) are the start indices of the complete items from   *)
(* s[i] up to, not including, index e.                                     *)
(***************************************************************************)
RECURSIVE ChildStarts(_, _, _)
ChildStarts(s, i, e) ==
    IF i >= e THEN <<>> ELSE <<i>> \o ChildStarts(s, ItemEnd(s, i).next, e)

BreakDoc(s, i) ==
    JObject([position_info |-> cbor_pos_to_value(TokPos(s, i)),
             type |-> JString("Break"),
             value |-> JNull])

\* C4 as stated: the rendered array's `values` has exactly the N items and
\* the Break is not an element of it.
C4_BreakNotAnElement ==
    Decoding => LET docs == StateDocs IN
        \A i \in DOMAIN consumed :
            (ClosedIndefArray(consumed, i) /\ (outcome.status \in {"running", "ok"} \/ eof))
            => LET brk == ItemEnd(consumed, i).next - 1
                   kids == ChildStarts(consumed, i + 1, brk)
               IN  \E n \in DOMAIN docs : LET d == docs[n] IN
                      /\ IsDocOf(d, consumed, i)
                      /\ Len(d.m.values.a) = Len(kids)
                      /\ \A k \in DOMAIN kids :
                            IsDocOf(d.m.values.a[k], consumed, kids[k])

\* C4 as amended: the rendered array's `values` has the N items in order,
\* followed by one more element, the Document of the closing Break token
\* ({type: "Break", value: null, position_info: the Break's span}).
C4_BreakIsLastElement ==
    Decoding => LET docs == StateDocs IN
        \A i \in DOMAIN consumed :
            (ClosedIndefArray(consumed, i) /\ (outcome.status \in {"running", "ok"} \/ eof))
            => LET brk == ItemEnd(consumed, i).next - 1
                   kids == ChildStarts(consumed, i + 1, brk)
               IN  \E n \in DOMAIN docs : LET d == docs[n] IN
                      /\ IsDocOf(d, consumed, i)
                      /\ Len(d.m.values.a) = Len(kids) + 1
                      /\ \A k \in DOMAIN kids :
                            IsDocOf(d.m.values.a[k], consumed, kids[k])
                      /\ d.m.values.a[Len(kids) + 1] = BreakDoc(consumed, brk)

C4_Witness ==
    /\ mode = "decode" /\ eof /\ outcome.status = "ok"
    /\ Len(consumed) = 4
    /\ consumed[1].token.kind = "BeginArray"
    /\ consumed[2].token.kind = "U8"
    /\ consumed[3].token = TokN("Array", 0)
    /\ consumed[4].token.kind = "Break"
    /\ Len(outcome.value.a[1].m.values.a) = 3

(***************************************************************************)
(* C5.  A map frame pairs the values add_value accepts strictly            *)
(* alternately: the (2i-1)th accepted value is the key and the (2i)th the  *)
(* value of the i-th pair, an odd last value waits as the pending key.  A  *)
(* token stream that ends while a map holds a lone pending key fails with  *)
(* "Invalid CBOR".                                                         *)
(***************************************************************************)
\* the number of complete items that fill s from index i exactly to its end,
\* -1 when the tokens from i on are not a run of complete items
RECURSIVE ItemsToEnd(_, _)
ItemsToEnd(s, i) ==
    IF i > Len(s) THEN 0
    ELSE LET e == ItemEnd(s, i)
         IN  IF e.st # "complete" THEN -1
             ELSE LET n == ItemsToEnd(s, e.next)
                  IN  IF n < 0 THEN -1 ELSE n + 1

\* the stream ends right after a key of the map that s[i] opens
LonePendingKey(s, i) ==
    /\ s[i].token.kind \in {"Map", "BeginMap"}
    /\ ItemsToEnd(s, i + 1) > 0
    /\ ItemsToEnd(s, i + 1) % 2 = 1
    /\ s[i].token.kind = "Map" => ItemsToEnd(s, i + 1) < 2 * s[i].token.n

C5_MapPairing ==
    /\ (mode = "frame" /\ is_some(frame) /\ unwrap(frame).kind = "Map") =>
          LET f == unwrap(frame)
              acc == last.accepted
          IN  /\ Len(f.map.a) = Len(acc) \div 2
              /\ \A i \in DOMAIN f.map.a :
                    f.map.a[i] = JObject([key |-> acc[2 * i - 1], value |-> acc[2 * i]])
              /\ f.key = IF Len(acc) % 2 = 1 THEN Some(acc[Len(acc)]) ELSE None
    /\ (Decoding /\ eof /\ \E i \in DOMAIN consumed : LonePendingKey(consumed, i)) =>
          /\ outcome.status = "err"
          /\ outcome.error = "Invalid CBOR"
          /\ outcome.value = JNull

\* a map frame that has paired two keys
C5_Witness ==
    /\ mode = "frame" /\ is_some(frame) /\ unwrap(frame).kind = "Map"
    /\ Len(unwrap(frame).map.a) = 2

\* a decode that ended on the lone second key of an indefinite map
C5_WitnessLoneKey ==
    /\ mode = "decode" /\ eof /\ Len(consumed) = 4
    /\ consumed[1].token = TokK("BeginMap")
    /\ LonePendingKey(consumed, 1)
    /\ outcome.error = "Invalid CBOR"

(***************************************************************************)
(* C6.  Span containment: every rendered array, map or tag has a           *)
(* `struct_position_info` that contains its `position_info` and the span   *)
(* of every child it holds: every element of an array, every key and value *)
(* of a map, the value of a tag.  The span of a child is its               *)
(* struct_position_info when it has one, its position_info otherwise.      *)
(***************************************************************************)
SpanOffset(v) == v.m.offset.n

DocSpan(d) ==
    IF "struct_position_info" \in DOMAIN d.m
    THEN d.m.struct_position_info
    ELSE d.m.position_info

SpanContains(outer, inner) ==
    /\ SpanOffset(outer) <= SpanOffset(inner)
    /\ SpanEnd(inner) <= SpanEnd(outer)

\* the children a rendered collection holds, as a sequence
ChildrenOf(d) ==
    CASE d.m.type = JString("array") -> d.m.values.a
      [] d.m.type = JString("map") ->
            [i \in DOMAIN d.m.values.a |-> d.m.values.a[i].m.key]
            \o [i \in DOMAIN d.m.values.a |-> d.m.values.a[i].m.value]
      [] d.m.type = JString("tag") -> <<d.m.value>>
      [] OTHER -> <<>>

IsCollectionDoc(d) == d.m.type.s \in {"array", "map", "tag"}

C6_SpanContainment ==
    Decoding => LET docs == StateDocs IN
        \A n \in DOMAIN docs : LET d == docs[n] IN
            IsCollectionDoc(d) =>
                /\ SpanContains(d.m.struct_position_info, d.m.position_info)
                /\ \A k \in DOMAIN ChildrenOf(d) :
                      SpanContains(d.m.struct_position_info, DocSpan(ChildrenOf(d)[k]))

\* a rendered map whose key is itself a rendered collection
C6_Witness ==
    /\ mode = "decode" /\ outcome.status = "ok"
    /\ LET docs == StateDocs IN \E n \in DOMAIN docs : LET d == docs[n] IN
          /\ d.m.type = JString("map")
          /\ Len(d.m.values.a) = 1
          /\ IsCollectionDoc(d.m.values.a[1].m.key)

(***************************************************************************)
(* C7.  add_value on a definite-length Array or Map frame whose running    *)
(* count has reached its declared length fails with "Array is full" /      *)
(* "Map is full", whatever the finalizer flag, and leaves the frame as it  *)
(* was: children, pending key, running count and both spans.               *)
(***************************************************************************)
IsFull(f) ==
    /\ f.kind \in {"Array", "Map"}
    /\ is_some(f.len)
    /\ f.count >= unwrap(f.len)

C7_FullFrameRejects ==
    (mode = "frame" /\ last.op = "add_value" /\ IsFull(unwrap(last.before))) =>
        /\ last.res = Err(IF unwrap(last.before).kind = "Array"
                          THEN "Array is full" ELSE "Map is full")
        /\ frame = last.before

\* a full Map(1) refused a value offered as a finalizer
C7_Witness ==
    /\ mode = "frame" /\ last.op = "add_value" /\ last.finalizer
    /\ IsFull(unwrap(last.before))
    /\ unwrap(last.before).kind = "Map"
    /\ Len(unwrap(last.before).map.a) = 1

(***************************************************************************)
(* C8.  add_value on a Tag frame that already holds a value fails with     *)
(* "Tag already has a value" and leaves the frame as it was; to_value on a *)
(* Tag frame that never received a value fails with "Tag has no value".    *)
(***************************************************************************)
C8_TagErrors ==
    (mode = "frame" /\ last.op \in {"add_value", "to_value"}
                    /\ unwrap(last.before).kind = "Tag") =>
        /\ (last.op = "add_value" /\ is_some(unwrap(last.before).value)) =>
              /\ last.res = Err("Tag already has a value")
              /\ frame = last.before
        /\ (last.op = "to_value" /\ is_none(unwrap(last.before).value)) =>
              last.res = Err("Tag has no value")

C8_Witness ==
    /\ mode = "frame" /\ last.op = "add_value"
    /\ unwrap(last.before).kind = "Tag"
    /\ is_some(unwrap(last.before).value)
    /\ last.res.st = "err"

(***************************************************************************)
(* C9.  The token stream Array(3), U8 1, String "a", Map(1), String "k",   *)
(* Bool true decodes successfully, with no further token, to the array     *)
(* Document of three Documents: the scalar wrappers of 1 and "a" and a map *)
(* wrapper whose `values` is the one pair {key: "k", value: true}.         *)
(***************************************************************************)
RoundTripTokens ==
    <<TokN("Array", 3), TokN("U8", 1), TokS("String", "a"), TokN("Map", 1),
      TokS("String", "k"), TokB("Bool", TRUE)>>

Span(offset, length) ==
    JObject([offset |-> JNumber(offset), length |-> JNumber(length)])

ScalarDoc(type, value, offset, length) ==
    JObject([type |-> JString(type), value |-> value,
             position_info |-> Span(offset, length)])

RoundTripDocument ==
    JArray(<<
        JObject([type |-> JString("array"),
                 items |-> JNumber(3),
                 position_info |-> Span(0, 1),
                 struct_position_info |-> Span(0, 8),
                 values |-> JArray(<<
                     ScalarDoc("U8", JNumber(1), 1, 1),
                     ScalarDoc("String", JString("a"), 2, 2),
                     JObject([type |-> JString("map"),
                              items |-> JNumber(1),
                              position_info |-> Span(4, 1),
                              struct_position_info |-> Span(4, 4),
                              values |-> JArray(<<
                                  JObject([key |-> ScalarDoc("String", JString("k"), 5, 2),
                                           value |-> ScalarDoc("Bool", JBool(TRUE), 7, 1)])
                              >>)])
                 >>)])
    >>)

IsRoundTripStream ==
    /\ Len(consumed) = Len(RoundTripTokens)
    /\ \A i \in DOMAIN consumed : consumed[i].token = RoundTripTokens[i]

C9_RoundTripScenario ==
    (mode = "scenario" /\ IsRoundTripStream /\ ~SourceFailed) =>
        /\ outcome.status \in {"running", "ok"}
        /\ eof => /\ outcome.status = "ok"
                  /\ outcome.value = RoundTripDocument

C9_Witness ==
    /\ mode = "scenario" /\ IsRoundTripStream /\ eof
    /\ outcome.value = RoundTripDocument

(***************************************************************************)
(* C10.  Once the token stream is exhausted and the final collapse has     *)
(* run, the decode fails with "Invalid CBOR" if and only if more than the  *)
(* root frame remains on the stack, and otherwise succeeds.  A stream that *)
(* ends inside a definite-length array or map still missing children, or   *)
(* inside an indefinite one with no closing Break, fails that way and      *)
(* returns no Document; a stream of complete items does not.               *)
(***************************************************************************)
InvalidCbor ==
    /\ outcome.status = "err"
    /\ outcome.error = "Invalid CBOR"
    /\ outcome.value = JNull

\* s ends inside the array or map that s[i] opens
EndsInside(s, i) ==
    /\ s[i].token.kind \in {"Array", "Map", "BeginArray", "BeginMap"}
    /\ ItemEnd(s, i).st = "incomplete"

C10_EndOfStream ==
    (Decoding /\ eof) =>
        /\ InvalidCbor <=> Len(collections) > 1
        /\ ~InvalidCbor => (outcome.status = "ok" /\ collections = <<>>)
        /\ (Viable(consumed) /\ \E i \in DOMAIN consumed : EndsInside(consumed, i))
              => InvalidCbor
        /\ Complete(consumed) => outcome.status = "ok"

\* a definite-length array short of one child, nested in an indefinite one
C10_Witness ==
    /\ mode = "decode" /\ eof /\ InvalidCbor
    /\ Len(consumed) = 3 /\ Len(collections) = 3
    /\ consumed[1].token.kind = "BeginArray"
    /\ consumed[2].token = TokN("Array", 2)
    /\ IsScalarToken(consumed[3].token)

(***************************************************************************)
(* C11.  A Break that arrives when only the root frame is on the stack     *)
(* (the tokens before it are complete top-level items, so no indefinite    *)
(* collection is open) makes the decode return the error "Invalid CBOR".   *)
(***************************************************************************)
AllButLast(s) == SubSeq(s, 1, Len(s) - 1)

\* the last token consumed is a Break that no open collection was waiting for
UnbalancedBreak(s) ==
    /\ s # <<>>
    /\ s[Len(s)].token.kind = "Break"
    /\ Complete(AllButLast(s))

C11_UnbalancedBreak ==
    (Decoding /\ UnbalancedBreak(consumed)) => InvalidCbor

(***************************************************************************)
(* C12.  A Break is accepted only when the top frame, after the collapse   *)
(* step, is an Array or Map with no declared length.  When the top frame   *)
(* is a definite-length array or map still short of children, or a tag     *)
(* with no value, the step that consumes the Break ends the decode with an *)
(* error: it never closes the frame and goes on.                           *)
(***************************************************************************)
IndefiniteOpen(f) == f.kind \in {"Array", "Map"} /\ f.len = None

\* this step consumes a Break
BreakArrives ==
    /\ Decoding
    /\ Len(consumed') = Len(consumed) + 1
    /\ consumed'[Len(consumed')].token.kind = "Break"

C12_BreakOnlyClosesIndefinite ==
    [][BreakArrives =>
          LET c == collapse_collections(collections)
          IN  \/ c.st = "ok" /\ IndefiniteOpen(Top(c.cs))
              \/ outcome'.status = "err"]_vars

(***************************************************************************)
(* C13.  Every error aborts the decode at the token where it arises: the   *)
(* step that fails leaves the call with an error of one of the four kinds  *)
(* (token source, frame, unsupported token, malformed structure) and no    *)
(* Document, and after it nothing changes any more: no token is consumed.  *)
(***************************************************************************)
FrameErrors ==
    {"Array is full", "Map is full", "Invalid array", "Tag already has a value",
     "Tag has no value", "Invalid token"}

ErrorMessages ==
    {minicbor_to_js_error(e) : e \in SourceErrors}
    \cup FrameErrors \cup {"Token is not a value", "Invalid CBOR"}

C13_ErrorAborts ==
    [][Decoding =>
          /\ outcome.status = "err" => UNCHANGED vars
          /\ (outcome.status = "running" /\ outcome'.status = "err") =>
                /\ outcome'.error \in ErrorMessages
                /\ outcome'.value = JNull
                /\ Len(consumed') <= Len(consumed) + 1]_vars

\* an indefinite byte string inside an open array: the decode has stopped
\* there, with tokens still to come
C13_Witness ==
    /\ mode = "decode" /\ ~eof
    /\ outcome.status = "err" /\ outcome.error = "Token is not a value"
    /\ outcome.value = JNull
    /\ Len(consumed) = 2 /\ Len(consumed) < MaxTokens
    /\ consumed[1].token.kind = "BeginArray"
    /\ consumed[2].token.kind = "BeginBytes"

(***************************************************************************)
(* C14.  When the token source yields no token and no error, the decode    *)
(* succeeds and returns the empty array.                                   *)
(***************************************************************************)
C14_EmptyStream ==
    (Decoding /\ eof /\ consumed = <<>>) =>
        /\ outcome.status = "ok"
        /\ outcome.value = JArray(<<>>)

C14_Witness ==
    /\ mode = "decode" /\ eof /\ consumed = <<>>
    /\ outcome = [status |-> "ok", error |-> "", value |-> JArray(<<>>)]

(***************************************************************************)
(* C15.  The frame stack starts as one root Array frame with no declared   *)
(* length, and it is non-empty in every state of a decode, whatever the    *)
(* tokens (the stack handed back by the final pop of a successful return   *)
(* is not a state of the decode).                                          *)
(***************************************************************************)
IsRootFrame(f) == f.kind = "Array" /\ f.len = None

C15_StackNeverEmpty ==
    Decoding =>
        /\ (consumed = <<>> /\ outcome.status = "running") =>
              (Len(collections) = 1 /\ IsRootFrame(collections[1]))
        /\ outcome.status # "ok" => Len(collections) >= 1

(***************************************************************************)
(* C16.  In every state of a decode, a frame with a declared length holds  *)
(* at most that many elements (pairs, for a map) and its running count is  *)
(* at most that length; the same holds of every rendered array or map with *)
(* a declared length, also one that a Break was routed to as a finalizer.  *)
(***************************************************************************)
FrameElements(f) == IF f.kind = "Array" THEN f.array.a ELSE f.map.a

FrameWithinLength(f) ==
    (f.kind \in {"Array", "Map"} /\ f.len # None) =>
        /\ f.count <= f.len[1]
        /\ Len(FrameElements(f)) <= f.len[1]

DocWithinLength(d) ==
    ("items" \in DOMAIN d.m /\ d.m.items.j = "Number") =>
        Len(d.m.values.a) <= d.m.items.n

C16_WithinDeclaredLength ==
    Decoding =>
        /\ \A k \in DOMAIN collections : FrameWithinLength(collections[k])
        /\ LET docs == StateDocs
           IN  \A n \in DOMAIN docs : DocWithinLength(docs[n])

\* Array(2), a scalar, Break: the Break went to the definite array
C16_Witness ==
    /\ mode = "decode" /\ Len(consumed) = 3
    /\ consumed[1].token = TokN("Array", 2)
    /\ IsScalarToken(consumed[2].token)
    /\ consumed[3].token.kind = "Break"
    /\ outcome.status = "running"
    /\ LET docs == StateDocs
       IN  \E n \in DOMAIN docs :
              /\ IsDocOf(docs[n], consumed, 1)
              /\ Len(docs[n].m.values.a) = 2
              /\ docs[n].m.values.a[2].m.type = JString("Break")

(***************************************************************************)
(* C17.  A Tag frame accepts exactly one child value over its life: a call *)
(* of add_value on a tag that has its value leaves the value as it was,    *)
(* and every rendered tag's `value` is the Document of the first complete  *)
(* item (a scalar, or a closed collection or tag) after the tag header.    *)
(***************************************************************************)
\* d is the rendered tag that the header s[i] opened
IsTagDocOf(d, s, i) == s[i].token.kind = "Tag" /\ IsDocOf(d, s, i)

C17_TagValueIsFirstItem ==
    /\ (mode = "frame" /\ last.op = "add_value"
                       /\ unwrap(last.before).kind = "Tag"
                       /\ is_some(unwrap(last.before).value)) =>
          unwrap(frame).value = unwrap(last.before).value
    /\ Decoding =>
          LET docs == StateDocs
          IN  \A n \in DOMAIN docs : \A i \in DOMAIN consumed :
                 IsTagDocOf(docs[n], consumed, i) =>
                    /\ ItemEnd(consumed, i + 1).st = "complete"
                    /\ IsDocOf(docs[n].m.value, consumed, i + 1)

(***************************************************************************)
(* C18.  A token stream that ends right after a tag header.                *)
(***************************************************************************)
\* the stream ended, and its last token is a tag header
EndsAfterTagHeader ==
    /\ Decoding /\ eof
    /\ consumed # <<>>
    /\ consumed[Len(consumed)].token.kind = "Tag"

\* C18 as claimed: the decode fails with "Tag has no value"
C18_FailsWithTagMissingValue ==
    EndsAfterTagHeader =>
        (outcome.status = "err" /\ outcome.error = "Tag has no value")

\* C18, amended: the decode fails with "Invalid CBOR"; the tag frame is never
\* closed, it is still on the stack when the call returns
C18_FailsWithInvalidCbor ==
    EndsAfterTagHeader =>
        /\ InvalidCbor
        /\ Len(collections) > 1
        /\ Top(collections).kind = "Tag" /\ Top(collections).value = None

C18_Witness ==
    /\ mode = "decode" /\ EndsAfterTagHeader /\ InvalidCbor
    /\ Len(consumed) = 2
    /\ consumed[1].token.kind = "BeginArray"

(***************************************************************************)
(* C19.  The token kinds that carry no scalar value, and what the Document *)
(* Builder answers when asked for the value of one.                        *)
(***************************************************************************)
OpenerKinds ==
    {"BeginArray", "BeginMap", "BeginBytes", "BeginString", "Array", "Map", "Tag"}

NotAValue == Err("Token is not a value")

\* the builder driver has called `op` on a token of one of the kinds
BuilderCalled(op, kinds) ==
    /\ mode = "builder" /\ last.op = op
    /\ consumed[1].token.kind \in kinds

\* the last token the decode consumed is the start of an indefinite byte or
\* text string, which the engine routes as a scalar
ChunkedStringRouted ==
    /\ Decoding /\ consumed # <<>>
    /\ consumed[Len(consumed)].token.kind \in {"BeginBytes", "BeginString"}

AbortedNotAValue ==
    /\ outcome.status = "err"
    /\ outcome.error = "Token is not a value"
    /\ outcome.value = JNull

\* C19 as claimed: a Break and every structural opener are refused with
\* "Token is not a value"; so a BeginBytes or BeginString on the scalar path
\* aborts the decode with that error
C19_BreakAndOpenersRefused ==
    /\ BuilderCalled("token_to_value", OpenerKinds \cup {"Break"}) =>
          last.res = NotAValue
    /\ BuilderCalled("extended_token_to_value", OpenerKinds \cup {"Break"}) =>
          last.res = NotAValue
    /\ ChunkedStringRouted => AbortedNotAValue

\* C19, amended: every structural opener is refused with "Token is not a
\* value", while a Break is given the value null and is rendered as a
\* Document; a BeginBytes or BeginString on the scalar path aborts the decode
\* with that error
C19_OpenersRefusedBreakIsNull ==
    /\ BuilderCalled("token_to_value", OpenerKinds) => last.res = NotAValue
    /\ BuilderCalled("extended_token_to_value", OpenerKinds) => last.res = NotAValue
    /\ BuilderCalled("token_to_value", {"Break"}) => last.res = Ok(JNull)
    /\ BuilderCalled("extended_token_to_value", {"Break"}) =>
          last.res = Ok(JObject([type |-> JString("Break"), value |-> JNull,
                                 position_info |->
                                     cbor_pos_to_value(TokPos(consumed, 1))]))
    /\ ChunkedStringRouted => AbortedNotAValue

\* an indefinite byte string inside a definite array stops the decode
C19_Witness ==
    /\ mode = "decode" /\ ChunkedStringRouted /\ AbortedNotAValue
    /\ Len(consumed) = 2
    /\ consumed[1].token = TokN("Array", 2)

\* the builder was asked for the value of a Break and of a definite-map header
C19_WitnessBreak ==
    BuilderCalled("token_to_value", {"Break"}) /\ last.res = Ok(JNull)

C19_WitnessOpener ==
    BuilderCalled("token_to_value", {"Map"}) /\ last.res = NotAValue

(***************************************************************************)
(* C20.  Every scalar token is rendered as an object with exactly the      *)
(* fields type, value and position_info, and position_info is the offset   *)
(* and length the token source reported for it: the builder returns such   *)
(* an object; while a decode goes well every scalar consumed has such a    *)
(* Document in the frames or the result, whatever frame it went to; and    *)
(* every Document that is not an array, map or tag is such an object for   *)
(* one of the tokens consumed.                                             *)
(***************************************************************************)
\* d is the three-field object of the token et, with the span et came with
IsScalarDocOf(d, et) ==
    /\ d.j = "Object"
    /\ DOMAIN d.m = {"type", "value", "position_info"}
    /\ d.m.type = JString(et.token.kind)
    /\ d.m.position_info = Span(et.offset, et.length)

GoingWell == outcome.status \in {"running", "ok"}

C20_ScalarDocument ==
    /\ (BuilderCalled("extended_token_to_value", ScalarKinds)
           /\ IsScalarToken(consumed[1].token)) =>
          (last.res.st = "ok" /\ IsScalarDocOf(last.res.v, consumed[1]))
    /\ (Decoding /\ GoingWell) =>
          LET docs == StateDocs
          IN  /\ \A i \in DOMAIN consumed :
                    IsScalarToken(consumed[i].token) =>
                       \E n \in DOMAIN docs : IsScalarDocOf(docs[n], consumed[i])
              /\ \A n \in DOMAIN docs :
                    "struct_position_info" \notin DOMAIN docs[n].m =>
                       \E i \in DOMAIN consumed : IsScalarDocOf(docs[n], consumed[i])

\* a scalar as the pending key of a map inside a tag inside an array
C20_Witness ==
    /\ mode = "decode" /\ outcome.status = "running"
    /\ Len(consumed) = 4 /\ Len(collections) = 4
    /\ consumed[1].token.kind = "BeginArray"
    /\ consumed[2].token.kind = "Tag"
    /\ consumed[3].token.kind = "BeginMap"
    /\ IsScalarToken(consumed[4].token)
    /\ Top(collections).key # None
    /\ IsScalarDocOf(Top(collections).key[1], consumed[4])

(***************************************************************************)
(* C21.  is_collection_finished is true of an Array or Map frame with a    *)
(* declared length exactly when its running count has reached that length, *)
(* true of a Tag frame exactly when its value is set, and false of every   *)
(* Array or Map frame with no declared length, however many children it    *)
(* holds.  Stated of the frame the frame driver holds and of every frame   *)
(* on the stack of a decode.                                               *)
(***************************************************************************)
FinishedAsDescribed(f) ==
    /\ (f.kind \in {"Array", "Map"} /\ f.len # None) =>
          (is_collection_finished(f) <=> f.count >= f.len[1])
    /\ f.kind = "Tag" => (is_collection_finished(f) <=> f.value # None)
    /\ (f.kind \in {"Array", "Map"} /\ f.len = None) => ~is_collection_finished(f)

C21_IsFinished ==
    /\ (mode = "frame" /\ frame # None) => FinishedAsDescribed(frame[1])
    /\ Decoding => \A k \in DOMAIN collections : FinishedAsDescribed(collections[k])

\* an indefinite array that has taken three children and is not finished
C21_Witness ==
    /\ mode = "frame" /\ frame # None
    /\ frame[1].kind = "Array" /\ frame[1].len = None
    /\ Len(frame[1].array.a) = 3
    /\ ~is_collection_finished(frame[1])

\* a definite map whose count has reached its declared length
C21_WitnessFull ==
    /\ mode = "frame" /\ frame # None
    /\ frame[1].kind = "Map" /\ frame[1].len = Some(1) /\ frame[1].count = 1
    /\ is_collection_finished(frame[1])

(***************************************************************************)
(* C22.  When is a finished frame folded into its parent.                  *)
(***************************************************************************)
\* the engine has processed at least one token and is ready for the next
BetweenTokens == Decoding /\ consumed # <<>> /\ outcome.status = "running"

\* C22 as claimed: after the engine has processed a token, no frame on the
\* stack is finished
C22_NoFinishedFrameAfterToken ==
    BetweenTokens => \A k \in DOMAIN collections :
                         ~is_collection_finished(collections[k])

\* C22, amended: a frame that took its last child stays on top of the stack,
\* finished, until the next token is processed or the stream ends; only the
\* top frame can be finished between tokens, and none is once the stream
\* has ended
C22_OnlyTopFinishedUntilNextToken ==
    Decoding =>
        /\ \A k \in DOMAIN collections :
              k < Len(collections) => ~is_collection_finished(collections[k])
        /\ eof => \A k \in DOMAIN collections :
                      ~is_collection_finished(collections[k])

\* Array(1) and its one scalar: the array is finished and still on the stack
C22_Witness ==
    /\ mode = "decode" /\ BetweenTokens
    /\ Len(consumed) = 2 /\ Len(collections) = 2
    /\ consumed[1].token = TokN("Array", 1)
    /\ IsScalarToken(consumed[2].token)
    /\ is_collection_finished(Top(collections))

(***************************************************************************)
(* C23.  The fold that follows a Break: the collection the Break closed is *)
(* added to the frame below it.                                            *)
(***************************************************************************)
\* the frame below the one a Break arriving now would close
ParentOfTop(cs) == cs[Len(cs) - 1]

\* this step consumes a Break, closes the top frame and folds it into a
\* parent that counts its children
BreakFolds ==
    /\ BreakArrives
    /\ outcome'.status = "running"
    /\ LET c == collapse_collections(collections)
       IN  ParentOfTop(c.cs).kind \in {"Array", "Map"}

\* what a child adds to the running count of the frame it is added to
\* without the finalizer flag
CountedAs(parent) ==
    IF parent.kind = "Map" /\ parent.key = None THEN 0 ELSE 1

\* C23 as claimed: the fold is made with is_finalizer = true and leaves the
\* parent's running count as it was
C23_FoldDoesNotCount ==
    [][BreakFolds =>
          LET c == collapse_collections(collections)
          IN  Top(collections').count = ParentOfTop(c.cs).count]_vars

\* C23, amended: the fold is made with is_finalizer = false and counts the
\* closed collection as a child of its parent like any other child
C23_FoldCounts ==
    [][BreakFolds =>
          LET c == collapse_collections(collections)
              parent == ParentOfTop(c.cs)
          IN  Top(collections').count = parent.count + CountedAs(parent)]_vars

\* Array(1), BeginArray, Break: the indefinite array is the one child of the
\* definite array, which is finished by the fold
C23_Witness ==
    /\ mode = "decode" /\ outcome.status = "running"
    /\ Len(consumed) = 3 /\ Len(collections) = 2
    /\ consumed[1].token = TokN("Array", 1)
    /\ consumed[2].token.kind = "BeginArray"
    /\ consumed[3].token.kind = "Break"
    /\ Top(collections).count = 1
    /\ is_collection_finished(Top(collections))

(***************************************************************************)
(* C24.  For every indefinite-length map closed by a Break when all its    *)
(* keys are paired, the rendered map's struct_position_info ends where the *)
(* Break token ends.                                                       *)
(***************************************************************************)
\* s[i] opens an indefinite map that a Break among the tokens closes after
\* whole pairs
ClosedIndefMap(s, i) ==
    s[i].token.kind = "BeginMap" /\ ItemEnd(s, i).st = "complete"

C24_IndefiniteMapSpan ==
    Decoding => LET docs == StateDocs IN
        \A i \in DOMAIN consumed :
            (ClosedIndefMap(consumed, i) /\ outcome.status \in {"running", "ok"}) =>
                LET brk == ItemEnd(consumed, i).next - 1
                IN  \E n \in DOMAIN docs : LET d == docs[n] IN
                       /\ IsDocOf(d, consumed, i)
                       /\ d.m.items = JString("Indefinite")
                       /\ SpanEnd(d.m.struct_position_info)
                             = End(TokPos(consumed, brk))

(***************************************************************************)
(* C25.  add_value on a Map frame that has no pending key and is not full  *)
(* succeeds, stores the value as the pending key and changes nothing else: *)
(* the pair list, the running count, the header span and the accumulated   *)
(* span are as they were, with or without the finalizer flag.              *)
(***************************************************************************)
\* the frame driver has just called add_value on a map that had no pending key
\* and was not full
KeyOffered ==
    /\ mode = "frame" /\ last.op = "add_value"
    /\ last.before # None
    /\ last.before[1].kind = "Map"
    /\ last.before[1].key = None
    /\ ~IsFull(last.before[1])

C25_KeyOnlyStored ==
    KeyOffered =>
        LET before == last.before[1]
            after == frame[1]
        IN  /\ last.res = Ok(<<>>)
            /\ after.key = Some(last.accepted[Len(last.accepted)])
            /\ after.map = before.map
            /\ after.count = before.count
            /\ after.pos = before.pos
            /\ after.total_size = before.total_size
            /\ after.len = before.len

\* the second key of a map, offered after one whole pair
C25_Witness ==
    /\ KeyOffered
    /\ Len(last.before[1].map.a) = 1
    /\ frame[1].key # None

(***************************************************************************)
(* C26.  For all spans base and incoming, extend_pos(base, incoming) is    *)
(* base itself when incoming ends at or before base's end, and otherwise   *)
(* the span from base's offset to incoming's end; so its offset is base's  *)
(* offset, its end is the larger of the two ends, and extending the result *)
(* by the same span again gives the same result.                           *)
(***************************************************************************)
EndOfSpan(p) == p.offset + p.length

LaterEnd(p, q) == IF EndOfSpan(q) > EndOfSpan(p) THEN EndOfSpan(q) ELSE EndOfSpan(p)

\* the span driver has extended base by incoming, once or twice
Extended == mode = "span" /\ last.op = "extend_pos"

C26_ExtendAlgebra ==
    Extended =>
        LET base == last.before[1].struct_pos
            incoming == last.before[1].value_pos
            result == last.res.v
        IN  /\ EndOfSpan(incoming) <= EndOfSpan(base) => result = base
            /\ EndOfSpan(incoming) > EndOfSpan(base) =>
                  (result.offset = base.offset
                      /\ EndOfSpan(result) = EndOfSpan(incoming))
            /\ result.offset = base.offset
            /\ EndOfSpan(result) = LaterEnd(base, incoming)

\* extended twice by a span that starts before the base and ends after it
C26_Witness ==
    /\ Extended /\ last.n = 2
    /\ last.before[1].value_pos.offset < last.before[1].struct_pos.offset
    /\ EndOfSpan(last.before[1].value_pos) > EndOfSpan(last.before[1].struct_pos)
    /\ last.res.v # last.before[1].struct_pos

\* extended by a span the base already contains
C26_WitnessContained ==
    /\ Extended /\ last.n = 1
    /\ last.before[1].struct_pos = CborPos(1, 3)
    /\ last.before[1].value_pos = CborPos(2, 1)
    /\ last.res.v = CborPos(1, 3)

(***************************************************************************)
(* C27.  A frame opened by a token starts with the token's span as its     *)
(* header span and as its accumulated span; add_value never changes the    *)
(* header span nor the offset of the accumulated span; so every rendered   *)
(* array, map or tag has the span of its opener token as position_info,    *)
(* and struct_position_info starts at the same offset.                     *)
(***************************************************************************)
\* s[i] is an opener, and the frame f carries its span as its header span
IsFrameOf(f, s, i) ==
    /\ is_token_collection(s[i].token)
    /\ f.pos = [offset |-> s[i].offset, length |-> s[i].length]

C27_HeaderSpan ==
    /\ (mode = "frame" /\ last.op = "new_collection" /\ frame # None) =>
          /\ frame[1].pos = [offset |-> 0, length |-> last.cursor]
          /\ frame[1].total_size = frame[1].pos
    /\ (mode = "frame" /\ last.op = "add_value") =>
          /\ frame[1].pos = last.before[1].pos
          /\ frame[1].total_size.offset = last.before[1].total_size.offset
    /\ Decoding =>
          /\ \A k \in DOMAIN collections : k > 1 =>
                /\ \E i \in DOMAIN consumed : IsFrameOf(collections[k], consumed, i)
                /\ collections[k].total_size.offset = collections[k].pos.offset
          /\ LET docs == StateDocs
             IN  \A n \in DOMAIN docs :
                    "struct_position_info" \in DOMAIN docs[n].m =>
                       /\ \E i \in DOMAIN consumed :
                             /\ is_token_collection(consumed[i].token)
                             /\ docs[n].m.type = JString(TypeName(consumed[i].token))
                             /\ docs[n].m.position_info
                                   = Span(consumed[i].offset, consumed[i].length)
                       /\ SpanOffset(docs[n].m.struct_position_info)
                             = SpanOffset(docs[n].m.position_info)

\* a tag opened at offset 2 holding an array opened at offset 3, both rendered
C27_Witness ==
    /\ mode = "decode" /\ outcome.status = "running"
    /\ Len(consumed) = 4
    /\ IsScalarToken(consumed[1].token)
    /\ consumed[2].token.kind = "Tag"
    /\ consumed[3].token = TokN("Array", 0)
    /\ LET docs == StateDocs
       IN  \E n \in DOMAIN docs :
              /\ docs[n].m.type = JString("tag")
              /\ docs[n].m.position_info = Span(2, 1)
              /\ SpanOffset(docs[n].m.struct_position_info) = 2

(***************************************************************************)
(* C28.  A rendered map's `values` is the sequence of its key-value pairs  *)
(* in the order the keys and values came: the j-th pair is made of the     *)
(* (2j-1)-th and the 2j-th item of the map; pairs with the same key stay   *)
(* separate pairs; a well-formed definite-length map that declares N pairs *)
(* is rendered with exactly N pairs.                                       *)
(***************************************************************************)
\* the pairs that a sequence of Documents, taken two by two, makes
PairsOf(acc) ==
    [j \in 1..(Len(acc) \div 2) |->
        JObject([key |-> acc[2 * j - 1], value |-> acc[2 * j]])]

\* the frame driver has rendered a map
MapRendered ==
    /\ mode = "frame" /\ last.op = "to_value"
    /\ last.before # None /\ last.before[1].kind = "Map"

\* the indices at which the items of the well-formed map s[i] start
MapItemStarts(s, i) ==
    ChildStarts(s, i + 1,
                IF s[i].token.kind = "Map" THEN ItemEnd(s, i).next
                ELSE ItemEnd(s, i).next - 1)

WellFormedMap(s, i) ==
    s[i].token.kind \in {"Map", "BeginMap"} /\ ItemEnd(s, i).st = "complete"

C28_MapPairsInOrder ==
    /\ MapRendered =>
          /\ last.res.st = "ok"
          /\ last.res.v.m.values = JArray(PairsOf(last.accepted))
    /\ Decoding =>
          LET docs == StateDocs
          IN  \A n \in DOMAIN docs : \A i \in DOMAIN consumed :
                 (WellFormedMap(consumed, i) /\ IsDocOf(docs[n], consumed, i)) =>
                    LET starts == MapItemStarts(consumed, i)
                        pairs == docs[n].m.values.a
                    IN  /\ Len(pairs) = Len(starts) \div 2
                        /\ consumed[i].token.kind = "Map" =>
                              Len(pairs) = consumed[i].token.n
                        /\ \A j \in DOMAIN pairs :
                              /\ DOMAIN pairs[j].m = {"key", "value"}
                              /\ IsDocOf(pairs[j].m.key, consumed, starts[2 * j - 1])
                              /\ IsDocOf(pairs[j].m.value, consumed, starts[2 * j])

\* a map rendered with two pairs that have the same key
C28_Witness ==
    /\ MapRendered /\ last.res.st = "ok"
    /\ Len(last.res.v.m.values.a) = 2
    /\ last.res.v.m.values.a[1].m.key.m.value
          = last.res.v.m.values.a[2].m.key.m.value
    /\ last.res.v.m.values.a[1].m.key.m.type
          = last.res.v.m.values.a[2].m.key.m.type
    /\ last.res.v.m.values.a[1].m.value.m.type
          # last.res.v.m.values.a[2].m.value.m.type

\* a decode that rendered the one pair of a definite map
C28_WitnessDecode ==
    /\ mode = "decode" /\ eof /\ outcome.status = "ok"
    /\ Len(consumed) = 3 /\ consumed[1].token = TokN("Map", 1)
    /\ Len(outcome.value.a[1].m.values.a) = 1

(***************************************************************************)
(* C29.  Collapse cascades.  When a token that is not a Break arrives      *)
(* after a viable stream, every frame that is finished, and every frame    *)
(* that folding one into it finishes, has been popped and folded before    *)
(* the token is routed: the stack is then the root and one frame for each  *)
(* collection or tag of the stream that is still open, and the token is    *)
(* attached to the innermost of them (an opener as a new frame on top of   *)
(* it, a scalar as its newest child).                                      *)
(***************************************************************************)
\* the collections and tags of s that are still open at the end of s
OpenItems(s) ==
    {i \in DOMAIN s : is_token_collection(s[i].token)
                         /\ ItemEnd(s, i).st = "incomplete"}

\* the newest child of a frame: its pending key, its last element or pair's
\* value, or its value
NewestChild(f) ==
    CASE f.kind = "Array" -> f.array.a[Len(f.array.a)]
      [] f.kind = "Map" /\ f.key # None -> f.key[1]
      [] f.kind = "Map" -> f.map.a[Len(f.map.a)].m.value
      [] f.kind = "Tag" -> f.value[1]

\* this step consumes a scalar or an opener after a viable stream
ItemArrives ==
    /\ Decoding
    /\ Len(consumed') = Len(consumed) + 1
    /\ Viable(consumed)
    /\ LET t == consumed'[Len(consumed')].token
       IN  IsScalarToken(t) \/ is_token_collection(t)

C29_CollapseCascades ==
    [][ItemArrives =>
          LET new == consumed'[Len(consumed')]
              open == OpenItems(consumed)
          IN  /\ outcome'.status = "running"
              /\ \A k \in DOMAIN collections' :
                    k < Len(collections') => ~is_collection_finished(collections'[k])
              /\ IF is_token_collection(new.token)
                 THEN /\ Len(collections') = 1 + Cardinality(open) + 1
                      /\ IsFrameOf(Top(collections'), consumed', Len(consumed'))
                 ELSE /\ Len(collections') = 1 + Cardinality(open)
                      /\ IsScalarDocOf(NewestChild(Top(collections')), new)
              /\ \A i \in open : \E k \in DOMAIN collections' :
                    k > 1 /\ IsFrameOf(collections'[k], consumed, i)]_vars

\* Tag, Tag, Array(0) and then a scalar: the array and both tags were folded
\* into the root before the scalar was added to the root
C29_Witness ==
    /\ mode = "decode" /\ outcome.status = "running"
    /\ Len(consumed) = 4 /\ Len(collections) = 1
    /\ consumed[1].token.kind = "Tag"
    /\ consumed[2].token.kind = "Tag"
    /\ consumed[3].token = TokN("Array", 0)
    /\ IsScalarToken(consumed[4].token)
    /\ Len(collections[1].array.a) = 2
    /\ IsDocOf(collections[1].array.a[1], consumed, 1)
    /\ IsDocOf(collections[1].array.a[1].m.value, consumed, 2)
    /\ IsDocOf(collections[1].array.a[1].m.value.m.value, consumed, 3)
    /\ IsScalarDocOf(collections[1].array.a[2], consumed[4])

(***************************************************************************)
(* C30.  The accumulated span of a frame and the closed frames folded into *)
(* it.                                                                     *)
(***************************************************************************)
\* the Documents a frame holds as elements, as keys and values of its
\* pairs, or as its value
RECURSIVE PairMembers(_)
PairMembers(pairs) ==
    IF pairs = <<>> THEN <<>>
    ELSE <<Head(pairs).m.key, Head(pairs).m.value>> \o PairMembers(Tail(pairs))

PlacedChildren(f) ==
    CASE f.kind = "Array" -> f.array.a
      [] f.kind = "Map" -> PairMembers(f.map.a)
      [] f.kind = "Tag" -> f.value

\* the Document c is a closed frame, and the frame f's accumulated span ends
\* at or after the end of c's
CoversFolded(f, c) ==
    "struct_position_info" \in DOMAIN c.m =>
        SpanEnd(c.m.struct_position_info) <= f.total_size.offset + f.total_size.length

\* C30 as claimed: whatever the parent and whatever place the folded frame
\* takes in it (a map's pending key too), the parent's accumulated span ends
\* at or after the end of the folded frame's
C30_ParentCoversEveryFold ==
    Decoding =>
        \A k \in DOMAIN collections :
            LET f == collections[k]
                held == PlacedChildren(f) \o (IF f.kind = "Map" THEN f.key ELSE <<>>)
            IN  \A n \in DOMAIN held : CoversFolded(f, held[n])

\* C30, amended: the parent's accumulated span ends at or after the end of
\* every folded frame that is an element of an array, the value of a tag, or
\* a member of a completed pair of a map; a frame folded in as the pending
\* key of a map leaves the map's accumulated span as it was
C30_ParentCoversPlacedFold ==
    /\ Decoding =>
          \A k \in DOMAIN collections :
              LET f == collections[k]
                  held == PlacedChildren(f)
              IN  \A n \in DOMAIN held : CoversFolded(f, held[n])
    /\ Decoding =>
          \A k \in DOMAIN collections :
              LET f == collections[k]
              IN  (f.kind = "Map" /\ f.key # None) =>
                     f.total_size.offset + f.total_size.length
                        = IF f.map.a = <<>>
                          THEN f.pos.offset + f.pos.length
                          ELSE SpanEnd(DocSpan(f.map.a[Len(f.map.a)].m.value))

\* BeginArray, Array(1), a scalar and a further token: the definite array,
\* three bytes long, was folded into the indefinite one
C30_Witness ==
    /\ mode = "decode" /\ outcome.status = "running"
    /\ Len(consumed) = 4 /\ Len(collections) = 3
    /\ consumed[1].token.kind = "BeginArray"
    /\ consumed[2].token = TokN("Array", 1)
    /\ IsScalarToken(consumed[3].token)
    /\ consumed[4].token.kind = "BeginMap"
    /\ IsDocOf(collections[2].array.a[1], consumed, 2)
    /\ SpanEnd(collections[2].array.a[1].m.struct_position_info) = 4
    /\ collections[2].total_size = CborPos(0, 4)

\* BeginMap, Array(0) and a further opener: the array was folded in as the
\* pending key, and the map's accumulated span is still its header's
C30_WitnessPendingKey ==
    /\ mode = "decode" /\ outcome.status = "running"
    /\ Len(consumed) = 3 /\ Len(collections) = 3
    /\ consumed[1].token.kind = "BeginMap"
    /\ consumed[2].token = TokN("Array", 0)
    /\ collections[2].key # None
    /\ collections[2].total_size = collections[2].pos

(***************************************************************************)
(* C31.  A scalar whose number cannot be converted (a negative big         *)
(* integer, a float that is not finite) is not turned into an error: the   *)
(* builder's call crashes, and a decode that meets such a token crashes,   *)
(* returning neither an error nor a Document.                              *)
(***************************************************************************)
Unconvertible(t) ==
    \/ t.kind = "Int" /\ t.n < 0
    \/ t.kind \in {"F16", "F32", "F64"} /\ ~t.f.finite

\* the last token the decode consumed cannot be converted
UnconvertibleRouted ==
    /\ Decoding /\ consumed # <<>>
    /\ Unconvertible(consumed[Len(consumed)].token)

Crashed == outcome.status = "panic" /\ outcome.value = JNull

C31_UnconvertibleCrashes ==
    /\ (mode = "builder" /\ last.op # "none" /\ Unconvertible(consumed[1].token)) =>
          last.res.st = "panic"
    /\ UnconvertibleRouted => Crashed

\* a NaN as the second element of an indefinite array
C31_Witness ==
    /\ mode = "decode" /\ UnconvertibleRouted /\ Crashed
    /\ Len(consumed) = 3
    /\ consumed[1].token.kind = "BeginArray"
    /\ IsScalarToken(consumed[2].token)

\* the builder asked for the value of a negative big integer
C31_WitnessInt ==
    /\ mode = "builder" /\ last.op = "token_to_value"
    /\ consumed[1].token.kind = "Int" /\ consumed[1].token.n < 0
    /\ last.res.st = "panic"

(***************************************************************************)
(* C32.  Whatever the tokens, stray Breaks included, no call the engine    *)
(* makes fails with "Array is full", "Map is full", "Tag already has a     *)
(* value" or "Tag has no value": no frame below the top of the stack is    *)
(* ever finished, and a finished top frame is folded away before a value   *)
(* is routed to it.                                                        *)
(***************************************************************************)
GuardErrors ==
    {"Array is full", "Map is full", "Tag already has a value", "Tag has no value"}

C32_GuardsNeverFire ==
    Decoding =>
        /\ outcome.error \notin GuardErrors
        /\ \A k \in DOMAIN collections :
              k < Len(collections) => ~is_collection_finished(collections[k])

\* Array(1), its one scalar and a second scalar: the full array was folded
\* away and the second scalar went to the root
C32_Witness ==
    /\ mode = "decode" /\ outcome.status = "running"
    /\ Len(consumed) = 3 /\ Len(collections) = 1
    /\ consumed[1].token = TokN("Array", 1)
    /\ IsScalarToken(consumed[2].token)
    /\ IsScalarToken(consumed[3].token)
    /\ Len(collections[1].array.a) = 2

\* Tag, Break, Break: a Break given to an empty tag, then a stray Break
C32_WitnessStrayBreak ==
    /\ mode = "decode" /\ Len(consumed) = 3
    /\ consumed[1].token.kind = "Tag"
    /\ consumed[2].token.kind = "Break"
    /\ consumed[3].token.kind = "Break"
    /\ outcome.status = "panic"

(***************************************************************************)
(* C33.  For every well-formed token stream, however nested, the decode    *)
(* succeeds, a child collection counting once toward its parent's declared *)
(* length whether it was closed by its count or by a Break.                *)
(***************************************************************************)
\* a token of the same kind whose number can be converted
Convertible(t) ==
    CASE t.kind = "Int" /\ t.n < 0 -> [t EXCEPT !.n = 0]
      [] t.kind \in {"F16", "F32", "F64"} -> [t EXCEPT !.f = [finite |-> TRUE, n |-> 0]]
      [] OTHER -> t

\* s is well nested: every definite array or map has its declared number of
\* children or pairs, every indefinite one is closed by one Break, every tag
\* is followed by one item; what numbers its scalars carry does not matter
WellNested(s) ==
    Complete([i \in DOMAIN s |-> [s[i] EXCEPT !.token = Convertible(s[i].token)]])

\* C33 as claimed: the decode of every well-nested stream goes on without
\* error or crash and succeeds at the end of the stream
C33_WellNestedSucceeds ==
    (Decoding /\ WellNested(consumed) /\ ~SourceFailed) =>
        outcome.status = IF eof THEN "ok" ELSE "running"

\* C33 for the streams whose scalars all carry a number that can be
\* converted: the decode goes on without an error and succeeds at the end of
\* the stream with one Document for each top-level item; every
\* definite-length array or map of the stream is rendered with exactly its
\* declared number of children or pairs.
DefiniteOpener(s, i) == s[i].token.kind \in {"Array", "Map"}

C33_WellFormedSucceeds ==
    (Decoding /\ Complete(consumed) /\ ~SourceFailed) =>
        /\ outcome.status = IF eof THEN "ok" ELSE "running"
        /\ eof =>
              LET starts == TopStarts(consumed, 1).starts
                  docs == StateDocs
              IN  /\ outcome.value.j = "Array"
                  /\ Len(outcome.value.a) = Len(starts)
                  /\ \A k \in DOMAIN starts :
                        IsDocOf(outcome.value.a[k], consumed, starts[k])
                  /\ \A i \in DOMAIN consumed : DefiniteOpener(consumed, i) =>
                        \E n \in DOMAIN docs :
                           /\ IsDocOf(docs[n], consumed, i)
                           /\ docs[n].m.items = JNumber(consumed[i].token.n)
                           /\ Len(docs[n].m.values.a) = consumed[i].token.n
                           /\ consumed[i].token.kind = "Array" =>
                                 LET kids == ChildStarts(consumed, i + 1,
                                                         ItemEnd(consumed, i).next)
                                 IN  \A k \in DOMAIN kids :
                                        IsDocOf(docs[n].m.values.a[k], consumed, kids[k])

\* Array(2), BeginArray, Break, Array(0): one child closed by a Break and one
\* by its count, each counted once
C33_Witness ==
    /\ mode = "decode" /\ eof /\ outcome.status = "ok"
    /\ Len(consumed) = 4
    /\ consumed[1].token = TokN("Array", 2)
    /\ consumed[2].token.kind = "BeginArray"
    /\ consumed[3].token.kind = "Break"
    /\ consumed[4].token = TokN("Array", 0)
    /\ Len(outcome.value.a) = 1
    /\ Len(outcome.value.a[1].m.values.a) = 2

(***************************************************************************)
(* C34.  Whenever the stack of a decode is non-empty, its bottom frame is  *)
(* the root: an Array with no declared length and header span (0, 0).  The *)
(* root never reports finished, and the collapse step, run on the stack as *)
(* it is, succeeds and leaves the root at the bottom.                      *)
(***************************************************************************)
IsSyntheticRoot(f) ==
    /\ f.kind = "Array" /\ f.len = None
    /\ f.pos = [offset |-> 0, length |-> 0]

C34_RootAtBottom ==
    (Decoding /\ collections # <<>>) =>
        /\ IsSyntheticRoot(collections[1])
        /\ ~is_collection_finished(collections[1])
        /\ LET c == collapse_collections(collections)
           IN  /\ c.st = "ok"
               /\ c.cs # <<>>
               /\ IsSyntheticRoot(c.cs[1])
               /\ \A k \in DOMAIN c.cs : ~is_collection_finished(c.cs[k])

\* Array(1), Tag, Array(0): the collapse step folds all three frames and
\* stops at the root
C34_Witness ==
    /\ mode = "decode" /\ outcome.status = "running"
    /\ Len(consumed) = 3 /\ Len(collections) = 4
    /\ consumed[1].token = TokN("Array", 1)
    /\ consumed[2].token.kind = "Tag"
    /\ consumed[3].token = TokN("Array", 0)
    /\ Len(collapse_collections(collections).cs) = 1

(***************************************************************************)
(* C35.  An array or map that declares zero children is finished as soon   *)
(* as it is pushed.  It is rendered with empty `values`, `items` 0 and     *)
(* struct_position_info equal to position_info, and it is folded into its  *)
(* parent at the next collapse step: when a later token is processed, or   *)
(* at the end of the stream, where a stream that is complete with it       *)
(* decodes successfully.                                                   *)
(***************************************************************************)
ZeroOpener(s, i) == s[i].token.kind \in {"Array", "Map"} /\ s[i].token.n = 0

\* d is the Document of the empty collection that s[i] opens
IsEmptyDocOf(d, s, i) ==
    /\ IsDocOf(d, s, i)
    /\ d.m.items = JNumber(0)
    /\ d.m.values = JArray(<<>>)
    /\ d.m.struct_position_info = d.m.position_info
    /\ d.m.position_info = Span(s[i].offset, s[i].length)

C35_ZeroLengthCollections ==
    Decoding =>
        LET docs == StateDocs
            last_i == Len(consumed)
        IN  /\ (consumed # <<>> /\ ZeroOpener(consumed, last_i)
                   /\ outcome.status = "running") =>
                  LET f == Top(collections)
                  IN  /\ IsFrameOf(f, consumed, last_i)
                      /\ is_collection_finished(f)
                      /\ FrameElements(f) = <<>>
                      /\ f.total_size = f.pos
            /\ \A i \in DOMAIN consumed :
                  (ZeroOpener(consumed, i) /\ (i < last_i \/ eof) /\ GoingWell) =>
                     \E n \in DOMAIN docs : IsEmptyDocOf(docs[n], consumed, i)
            /\ \A i \in DOMAIN consumed : \A n \in DOMAIN docs :
                  (ZeroOpener(consumed, i) /\ IsDocOf(docs[n], consumed, i)) =>
                     IsEmptyDocOf(docs[n], consumed, i)
            /\ (eof /\ consumed # <<>> /\ Complete(consumed)
                   /\ ZeroOpener(consumed, last_i)) =>
                  /\ outcome.status = "ok"
                  /\ IsEmptyDocOf(docs[Len(docs)], consumed, last_i)

\* a scalar and then Map(0) as the last token: the final collapse folded the
\* empty map into the root as its second child
C35_Witness ==
    /\ mode = "decode" /\ eof /\ outcome.status = "ok"
    /\ Len(consumed) = 2
    /\ IsScalarToken(consumed[1].token)
    /\ consumed[2].token = TokN("Map", 0)
    /\ Len(outcome.value.a) = 2
    /\ IsEmptyDocOf(outcome.value.a[2], consumed, 2)

(***************************************************************************)
(* C36.  No rendered map contains a pair whose key or value is the         *)
(* Document of a Break: a Break that reaches a map while a key is pending  *)
(* is not paired with that key as its value.                               *)
(***************************************************************************)
IsBreakDoc(d) ==
    d.j = "Object" /\ "type" \in DOMAIN d.m /\ d.m.type = JString("Break")

IsMapDoc(d) ==
    "struct_position_info" \in DOMAIN d.m /\ d.m.type = JString("map")

C36_NoBreakInPairs ==
    Decoding =>
        LET docs == StateDocs
        IN  \A n \in DOMAIN docs :
               IsMapDoc(docs[n]) =>
                  \A j \in DOMAIN docs[n].m.values.a :
                     LET pair == docs[n].m.values.a[j]
                     IN  ~IsBreakDoc(pair.m.key) /\ ~IsBreakDoc(pair.m.value)

(***************************************************************************)
(* C37.  For every finite token stream the decode terminates, with a       *)
(* Document, an error or a crash.  Each token is consumed once: a step     *)
(* takes at most one token, the one that starts where the last one ended,  *)
(* and keeps the tokens taken before.  A collapse of a stack of depth d    *)
(* pops at most d - 1 frames, and the depth of the stack is never more     *)
(* than one plus the number of openers consumed so far.                    *)
(***************************************************************************)
Terminated == outcome.status \in {"ok", "err", "panic"}

OpenersConsumed ==
    Cardinality({i \in DOMAIN consumed : is_token_collection(consumed[i].token)})

\* the frames the collapse step would pop from the stack as it is
CollapsePops == Len(collections) - Len(collapse_collections(collections).cs)

TakesNextToken ==
    /\ Len(consumed') = Len(consumed) + 1
    /\ SubSeq(consumed', 1, Len(consumed)) = consumed
    /\ consumed'[Len(consumed')].offset = NextOffset

C37_Terminates ==
    /\ <>Terminated
    /\ [](/\ Len(collections) <= 1 + OpenersConsumed
          /\ collections # <<>> => CollapsePops <= Len(collections) - 1)
    /\ [][consumed' = consumed \/ TakesNextToken]_vars

\* a decode that consumed as many tokens as the stream can have, all of them
\* openers, and ended
C37_Witness ==
    /\ mode = "decode" /\ Terminated /\ eof
    /\ Len(consumed) = MaxTokens
    /\ OpenersConsumed = MaxTokens
    /\ Len(collections) = 1 + MaxTokens

====
